---- MODULE Spec2Model ----
(***************************************************************************)
(* Model of the job execution engine of odysseus-bot: the persisted job    *)
(* store (job-db.mjs), the worker loop and the enqueue/cancel facade       *)
(* (worker module, createWorker), the two providers' execute/abort, and    *)
(* the per-chat repo/provider settings read by the router's queueJob.      *)
(*                                                                         *)
(* JavaScript runs each handler to its next `await` without interruption;  *)
(* every action below is one such run-to-await segment.  The store is the  *)
(* jobs.json document: loadJobs reads all of it, saveJobs replaces all of  *)
(* it.                                                                     *)
(*                                                                         *)
(* The process starts on an empty store.  genJobId yields a fresh id per   *)
(* call (forcedId is never passed by the router); ids are numbered in      *)
(* creation order.  null timestamps and pids are 0.  cancelJob is modelled *)
(* as the facade exports it, for callers with any chat id and any id.      *)
(***************************************************************************)
EXTENDS Integers, Sequences, FiniteSets, TLC

\* ------------------------------------------------------------------ bounds
MaxJobs == 2        \* enqueueJob calls in one behaviour
MaxCancels == 1     \* cancelJob calls in one behaviour
MaxLoops == 2       \* startWorkerLoop invocations that may pass the guard
MaxAborts == 2      \* abort calls per provider and job in a behaviour of SpecAbort
tailLimit == 3      \* the providers' tailLimit (14000 in the code), scaled down
MaxChunk == 4       \* longest output chunk fed to a capture
MaxFed == 6         \* most characters fed to one capture
MaxFeeds == 3       \* most chunks fed to one capture

\* --------------------------------------------------------------- constants
Null == 0           \* a null timestamp or pid (clock values and pids are > 0)
NullCode == -1      \* exit code null: the child was ended by a signal
AbortedCode == 130  \* GeminiProvider's exit code after an abort

Chats == {"chatA", "chatB"}

\* config.mjs ALLOWED_CHAT_ID: null when the variable is unset, else the chat
\* the bot is locked to (here the first chat)
ALLOWED_CHAT_ID == "chatA"
MaxMessages == 4
WORKDIR == "/work"                  \* config WORKDIR, the fallback repo
Workdirs == {WORKDIR, "/repo"}
DEFAULT_PROVIDER == "codex"
ProviderNames == {"codex", "gemini"}
NoOverride == "none"

JobIds == 1..MaxJobs
MaxFifoJobs == MaxJobs + 1           \* enqueueJob calls in a behaviour of SpecFifo
AllIds == 1..MaxFifoJobs
LoopIds == 1..MaxLoops
CancelIds == 1..MaxCancels

NoExit == [none |-> TRUE]           \* exit: null
ExitInfo(code, signal) == [code |-> code, signal |-> signal]
NoJob == [id |-> 0]
Terminal == {"succeeded", "failed", "canceled"}
\* output characters, and the chunks a capture can be fed (the empty one included)
Chars == {"a", "b"}
Chunks == UNION {[1..n -> Chars] : n \in 0..MaxChunk}
\* a capture before its execute has produced anything
NoCapture == [provider |-> "none", combinedTail |-> <<>>, sink |-> <<>>, chunks |-> <<>>]
\* nothing was called yet for a job on a provider
NoCalls == [exec |-> "none", aborts |-> 0, ret |-> "none", signaled |-> FALSE]

\* The heartbeat of one execution.  Time is counted in seconds, the period of
\* the heartbeatTimer; HEARTBEAT_SEC (config, 25 by default) is scaled down.
HEARTBEAT_SEC == 3
MaxTime == 12
NoHeartbeat == [pc |-> "idle", now |-> 0, startedAt |-> 0, lastHeartbeat |-> 0,
                finished |-> FALSE, nextCheck |-> 0, beats |-> <<>>]

\* The tool loop of one GeminiProvider.execute call.
MAX_TOOL_LOOPS == 5
MaxCalls == 2
NoToolLoop == [pc |-> "idle", generates |-> 0, tools |-> 0, calls |-> 0,
               functionResponses |-> <<>>, contents |-> <<>>, aborted |-> FALSE,
               text |-> FALSE, exit |-> NoExit]

\* The file at JOBS_DB_PATH as loadJobs can find it: missing, unreadable, not
\* JSON, the JSON null, or a JSON object whose jobs field is absent, falsy
\* (null, 0, "", false), an array of records, or some other value.
MaxItems == 2
Items == UNION {[1..n -> 1..2] : n \in 0..MaxItems}
Files ==
  [kind : {"missing", "unreadable", "garbage", "null"}, jobs : {"absent"}, items : {<<>>}]
    \cup [kind : {"object"}, jobs : {"absent", "falsy", "other"}, items : {<<>>}]
    \cup [kind : {"object"}, jobs : {"array"}, items : Items]
EmptyDb == [raised |-> FALSE, jobs |-> "array", items |-> <<>>]
NoFile == [content |-> [kind |-> "missing", jobs |-> "absent", items |-> <<>>],
           read |-> FALSE, db |-> EmptyDb]

\* One sendMessageSafe call.  A text is the sequence of its character
\* positions; TELEGRAM_MAX_CHARS is scaled down with the texts; "(no output)",
\* which is shorter than a chunk, is the one-character text <<0>>.  The outcome
\* of a bot.sendMessage call is "ok", a reply with retry_after, a network error
\* of the kinds of line 34, or any other error.
TELEGRAM_MAX_CHARS == 2
MaxText == 6
MaxAttempts == 6

\* The /mem and /compress commands of onMessage.  Memory is counted in units
\* that scale MEMORY_HIGH_MB down; "/nope" stands for a text that starts with
\* a slash and is no command.
MEMORY_HIGH_MB == 2
MaxMem == 3
MaxTexts == 3

\* Names given to getProvider.  A name is a sequence of characters, a character
\* a pair <<letter, upper>>; the names are the words below with at most
\* MaxUpper letters in upper case, and <<>> for a missing or empty name.
MaxUpper == 2
Word(letters) == [i \in 1..Len(letters) |-> <<letters[i], FALSE>>]
IsLetter(ch) == ch # "_"
Codex == Word(<<"c", "o", "d", "e", "x">>)
Gemini == Word(<<"g", "e", "m", "i", "n", "i">>)
Words ==
  {<<>>, Codex, Gemini, Word(<<"a", "s", "k">>),
   Word(<<"c", "o", "n", "s", "t", "r", "u", "c", "t", "o", "r">>),
   Word(<<"_", "_", "p", "r", "o", "t", "o", "_", "_">>)}
Cased(word) ==
  {[i \in 1..Len(word) |-> <<word[i][1], i \in up>>] :
     up \in {u \in SUBSET {i \in 1..Len(word) : IsLetter(word[i][1])} :
               Cardinality(u) <= MaxUpper}}
Names == UNION {Cased(word) : word \in Words}
\* the properties every object inherits from Object.prototype, by name
ObjectPrototype ==
  {Word(<<"c", "o", "n", "s", "t", "r", "u", "c", "t", "o", "r">>),
   Word(<<"_", "_", "p", "r", "o", "t", "o", "_", "_">>),
   [i \in 1..8 |-> <<(<<"t", "o", "s", "t", "r", "i", "n", "g">>)[i], i = 3>>],
   [i \in 1..7 |-> <<(<<"v", "a", "l", "u", "e", "o", "f">>)[i], i = 6>>]}

VARIABLES
  store,          \* jobs.json: the sequence db.jobs
  clock,          \* wall clock read by nowIso(), in instants told apart by job creation
  nextId,         \* number of ids genJobId has produced
  booted,         \* main has run startWorkerLoop()
  workerRunning,  \* the module flag that guards startWorkerLoop
  loops,          \* per startWorkerLoop activation: position and locals
  codexRunning,   \* CodexCliProvider.running: job id -> child (loop that owns it), 0 = absent
  geminiAborted,  \* GeminiProvider.aborted
  cancels,        \* per cancelJob call: position, locals and return value
  chatRepo,       \* chat-repos.json byChatId[chat].workdir ("" = no entry)
  chatProvider,   \* provider-state.json byChatId[chat].provider
  captured,       \* history: the arguments enqueueJob was given, per id
  claimed,        \* history: ids the worker has marked running
  cancelSeen,     \* history: ids on which cancelJob found status running
  finalized,      \* history: ids whose terminal status the finalization has saved
  zeroAfterCancel,
                  \* history: ids whose execution returned code 0 after such a cancel
  killTimer,      \* CodexCliProvider.execute's killTimer, per loop: armed or not
  prov,           \* per provider and job id: calls made on the provider object directly
  capture,        \* one execution's output capture: combinedTail, the log sink, and the chunks fed
  summaries,      \* history: summary notifications delivered to the chat, per job id
  documents,      \* history: per id, log documents delivered; was the last log read long
  heartbeat,      \* one CodexCliProvider.execute: Date.now(), lastHeartbeat, finished, beats sent
  toolLoop,       \* one GeminiProvider.execute: position, contents, aborted flag, result
  jobsFile,       \* the file at JOBS_DB_PATH as found, and what loadJobs made of it last
  lookedUp,       \* the last getProvider call: the name given and the value returned
  inbox,          \* onMessage calls: how many, the last one's chat, was it let in, replies per chat
  notified,       \* history: per id, the status named in the last summary delivered ("" = none)
  outbox,         \* one sendMessageSafe call: chunks, position, attempts made, chunks accepted
  memCmd          \* onMessage for /mem and /compress: position, text, replies, compress flow run

vars == <<store, clock, nextId, booted, workerRunning, loops, codexRunning,
          geminiAborted, cancels, chatRepo, chatProvider, captured, claimed,
          cancelSeen, finalized, zeroAfterCancel,
          killTimer,
          prov,
          capture,
          summaries,
          documents,
          heartbeat,
          toolLoop,
          jobsFile,
          lookedUp,
          inbox,
          notified,
          outbox,
          memCmd>>

\* ------------------------------------------------------------------ job-db
loadJobs == store

JobIdx(db, id) == {i \in 1..Len(db) : db[i].id = id}

HasJob(db, id) == JobIdx(db, id) # {}

\* db.jobs.find: the first record with that id
getJob(db, id) ==
  IF HasJob(db, id)
  THEN db[CHOOSE i \in JobIdx(db, id) : \A k \in JobIdx(db, id) : i <= k]
  ELSE NoJob

\* findIndex, then replace in place or push
upsertJob(db, job) ==
  IF HasJob(db, job.id)
  THEN [db EXCEPT ![CHOOSE i \in JobIdx(db, job.id) : \A k \in JobIdx(db, job.id) : i <= k] = job]
  ELSE Append(db, job)

Ids(db) == {db[i].id : i \in 1..Len(db)}

StatusOf(db, id) == getJob(db, id).status

\* --------------------------------------------------------------- providers
\* providers[String(name || "codex").toLowerCase()] || providers.codex
getProvider(name) == IF name = "gemini" THEN "gemini" ELSE "codex"

\* -------------------------------------------------------------- worker loop
QueuedIdx(db) == {i \in 1..Len(db) : db[i].status = "queued"}

\* filter(queued).sort(createdAt ascending)[0]; Array.prototype.sort is stable
OldestQueued(db) ==
  db[CHOOSE i \in QueuedIdx(db) :
       \A k \in QueuedIdx(db) :
          \/ db[i].createdAt < db[k].createdAt
          \/ (db[i].createdAt = db[k].createdAt /\ i <= k)]

IdleLoop == [pc |-> "off", j |-> NoJob, db |-> <<>>, child |-> "none",
             workdir |-> "", provider |-> "", exit |-> NoExit]

\* A spawn that fails with an error Node reports by event has that event
\* emitted from process.nextTick: the exit promise of execute line 88 resolves
\* and runJob finalizes before any message, timer or I/O completion is handled.
NoNextTick == \A w \in LoopIds : loops[w].child # "spawn_error"

\* the claim of startWorkerLoop, lines 69-74
ClaimedJob(next, now) ==
  [next EXCEPT !.status = "running", !.startedAt = now, !.pid = Null]


\* mutant of RunWorkdir: the working directory is resolved from the chat's
\* current repo when the job runs
RunWorkdirCurrent(j) ==
  IF chatRepo[j.chatId] = "" THEN WORKDIR ELSE chatRepo[j.chatId]

\* j.workdir || WORKDIR and (j.provider || "codex").toLowerCase(), runJob lines 90-91
RunWorkdir(j) == IF j.workdir = "" THEN WORKDIR ELSE j.workdir

RunProviderName(j) == IF j.provider = "" THEN "codex" ELSE j.provider

\* One pass of the while loop up to its first await: load, pick, claim and save,
\* then runJob's prefix (its own load, line 85) up to `await sendMessageSafe`.
Iteration(db, now) ==
  IF QueuedIdx(db) = {}
  THEN [store |-> db, claim |-> 0, loop |-> [IdleLoop EXCEPT !.pc = "poll"]]
  ELSE LET next == ClaimedJob(OldestQueued(db), now)
           db1  == upsertJob(db, next)
           j    == getJob(db1, next.id)
       IN [store |-> db1, claim |-> next.id,
           loop |-> [IdleLoop EXCEPT !.pc = "started", !.j = j, !.db = db1,
                                     !.workdir = RunWorkdir(j),
                                     !.provider = getProvider(RunProviderName(j))]]

\* mutant of Guard: the flag is not consulted
GuardNone(flag) == TRUE

\* `if (workerRunning) return;`
Guard(flag) == ~flag

FreeLoops == {w \in LoopIds : loops[w].pc = "off"}

FirstFree == CHOOSE w \in FreeLoops : \A k \in FreeLoops : w <= k

Marked(id) == IF id = 0 THEN claimed ELSE claimed \cup {id}

\* startWorkerLoop() called with the store holding db: the new values of store,
\* workerRunning, loops and claimed.
StartLoop(db, now) ==
  IF Guard(workerRunning) /\ FreeLoops # {}
  THEN LET it == Iteration(db, now)
       IN [store |-> it.store, flag |-> TRUE,
           loops |-> [loops EXCEPT ![FirstFree] = it.loop],
           claimed |-> Marked(it.claim)]
  ELSE [store |-> db, flag |-> workerRunning, loops |-> loops, claimed |-> claimed]

Init ==
  /\ store = <<>>
  /\ clock = 1
  /\ nextId = 0
  /\ booted = FALSE
  /\ workerRunning = FALSE
  /\ loops = [w \in LoopIds |-> IdleLoop]
  /\ codexRunning = [id \in AllIds |-> 0]
  /\ geminiAborted = {}
  /\ cancels = [c \in CancelIds |-> [pc |-> "idle", chatId |-> "", id |-> 0, db |-> <<>>,
                                     j |-> NoJob, result |-> "none", abortOn |-> <<>>,
                                     abortRet |-> FALSE]]
  /\ chatRepo = [c \in Chats |-> ""]
  /\ chatProvider = [c \in Chats |-> ""]
  /\ captured = [id \in AllIds |-> [chatId |-> "", prompt |-> "", workdir |-> "", provider |-> ""]]
  /\ claimed = {}
  /\ cancelSeen = {}
  /\ finalized = {}
  /\ zeroAfterCancel = {}
  /\ killTimer = [w \in LoopIds |-> FALSE]
  /\ prov = [p \in ProviderNames |-> [id \in JobIds |-> NoCalls]]
  /\ capture = NoCapture
  /\ summaries = [id \in AllIds |-> 0]
  /\ documents = [id \in AllIds |-> [sent |-> 0, long |-> FALSE]]
  /\ heartbeat = NoHeartbeat
  /\ toolLoop = NoToolLoop
  /\ jobsFile = NoFile
  /\ lookedUp = [name |-> <<>>, value |-> "none"]
  /\ inbox = [received |-> 0, chat |-> "", allowed |-> TRUE, replies |-> [c \in Chats |-> 0]]
  /\ notified = [id \in AllIds |-> ""]
  /\ outbox = [pc |-> "idle", text |-> <<>>, chunks |-> <<>>, at |-> 0, attempt |-> 0,
               attempts |-> <<>>, accepted |-> <<>>, last |-> "none"]
  /\ memCmd = [pc |-> "idle", text |-> "", botMemMb |-> 0, replies |-> <<>>,
               flow |-> "none", handled |-> 0]

\* main: startWorkerLoop().catch(() => {}) at the end of module evaluation
Boot ==
  /\ ~booted
  /\ booted' = TRUE
  /\ LET r == StartLoop(loadJobs, clock)
     IN /\ store' = r.store
        /\ workerRunning' = r.flag
        /\ loops' = r.loops
        /\ claimed' = r.claimed
  /\ UNCHANGED <<clock, nextId, codexRunning, geminiAborted, cancels, chatRepo,
                 chatProvider, captured, cancelSeen, finalized, zeroAfterCancel>>
  /\ UNCHANGED killTimer
  /\ UNCHANGED prov
  /\ UNCHANGED capture
  /\ UNCHANGED summaries
  /\ UNCHANGED documents
  /\ UNCHANGED heartbeat
  /\ UNCHANGED toolLoop
  /\ UNCHANGED jobsFile
  /\ UNCHANGED lookedUp
  /\ UNCHANGED inbox
  /\ UNCHANGED notified
  /\ UNCHANGED outbox
  /\ UNCHANGED memCmd

\* ------------------------------------------------------------ chat settings
getChatWorkdir(chatId) == IF chatRepo[chatId] = "" THEN WORKDIR ELSE chatRepo[chatId]

getChatProvider(chatId) ==
  IF chatProvider[chatId] = "" THEN DEFAULT_PROVIDER ELSE chatProvider[chatId]

\* /setrepo: updateChatRepo(chatId, token, wd) with wd a resolved git directory
updateChatRepo(chatId, wd) ==
  /\ booted
  /\ NoNextTick
  /\ getChatWorkdir(chatId) # wd
  /\ chatRepo' = [chatRepo EXCEPT ![chatId] = wd]
  /\ UNCHANGED <<store, clock, nextId, booted, workerRunning, loops, codexRunning,
                 geminiAborted, cancels, chatProvider, captured, claimed,
                 cancelSeen, finalized, zeroAfterCancel>>
  /\ UNCHANGED killTimer
  /\ UNCHANGED prov
  /\ UNCHANGED capture
  /\ UNCHANGED summaries
  /\ UNCHANGED documents
  /\ UNCHANGED heartbeat
  /\ UNCHANGED toolLoop
  /\ UNCHANGED jobsFile
  /\ UNCHANGED lookedUp
  /\ UNCHANGED notified
  /\ UNCHANGED outbox
  /\ UNCHANGED memCmd

\* the /setrepo command, its message not recorded
SetRepo(chatId, wd) ==
  /\ updateChatRepo(chatId, wd)
  /\ UNCHANGED inbox

\* /setprovider <codex|gemini>
setChatProvider(chatId, p) ==
  /\ booted
  /\ NoNextTick
  /\ getChatProvider(chatId) # p
  /\ chatProvider' = [chatProvider EXCEPT ![chatId] = p]
  /\ UNCHANGED <<store, clock, nextId, booted, workerRunning, loops, codexRunning,
                 geminiAborted, cancels, chatRepo, captured, claimed,
                 cancelSeen, finalized, zeroAfterCancel>>
  /\ UNCHANGED killTimer
  /\ UNCHANGED prov
  /\ UNCHANGED capture
  /\ UNCHANGED summaries
  /\ UNCHANGED documents
  /\ UNCHANGED heartbeat
  /\ UNCHANGED toolLoop
  /\ UNCHANGED jobsFile
  /\ UNCHANGED lookedUp
  /\ UNCHANGED notified
  /\ UNCHANGED outbox
  /\ UNCHANGED memCmd

\* the /setprovider command, its message not recorded
SetProvider(chatId, p) ==
  /\ setChatProvider(chatId, p)
  /\ UNCHANGED inbox

\* ------------------------------------------------------------------ enqueue
\* The prompts of the messages: the router refuses an empty one (lines 291,
\* 299, 307).  Where the text of the prompt plays no part one prompt is sent.
Prompts == {"p", "q"}
OnePrompt == {"p"}

\* mutant of NewJob: the record is created without the caller's prompt
NewJobNoPrompt(id, chatId, prompt, workdir, provider, now) ==
  [id |-> id, chatId |-> chatId, status |-> "queued", createdAt |-> now,
   startedAt |-> Null, finishedAt |-> Null, pid |-> Null,
   exit |-> NoExit, prompt |-> "p",
   workdir |-> IF workdir = "" THEN WORKDIR ELSE workdir,
   provider |-> provider]

\* The record of enqueueJob lines 202-215.  updatedAt, which the code stamps on
\* every write and never reads, is left out.
NewJob(id, chatId, prompt, workdir, provider, now) ==
  [id |-> id, chatId |-> chatId, status |-> "queued", createdAt |-> now,
   startedAt |-> Null, finishedAt |-> Null, pid |-> Null,
   exit |-> NoExit, prompt |-> prompt,
   workdir |-> IF workdir = "" THEN WORKDIR ELSE workdir,
   provider |-> provider]

\* queueJob (router) and enqueueJob: resolve, create, upsert, save, start the loop.
\* dt: whether the clock has moved on since the previous job was created.
queueJob(limit, chatId, prompt, override, dt) ==
  /\ booted
  /\ NoNextTick
  /\ nextId < limit
  /\ LET id       == nextId + 1
         now      == clock + dt
         workdir  == getChatWorkdir(chatId)
         provider == IF override = NoOverride THEN getChatProvider(chatId) ELSE override
         job      == NewJob(id, chatId, prompt, workdir, provider, now)
         r        == StartLoop(upsertJob(loadJobs, job), now)
     IN /\ nextId' = id
        /\ clock' = now
        /\ captured' = [captured EXCEPT ![id] = [chatId |-> chatId, prompt |-> prompt,
                                                 workdir |-> workdir, provider |-> provider]]
        /\ store' = r.store
        /\ workerRunning' = r.flag
        /\ loops' = r.loops
        /\ claimed' = r.claimed
  /\ UNCHANGED <<booted, codexRunning, geminiAborted, cancels, chatRepo,
                 chatProvider, cancelSeen, finalized, zeroAfterCancel>>
  /\ UNCHANGED killTimer
  /\ UNCHANGED prov
  /\ UNCHANGED capture
  /\ UNCHANGED summaries
  /\ UNCHANGED documents
  /\ UNCHANGED heartbeat
  /\ UNCHANGED toolLoop
  /\ UNCHANGED jobsFile
  /\ UNCHANGED lookedUp
  /\ UNCHANGED notified
  /\ UNCHANGED outbox

\* /codex, /gemini, /ask or a plain text, its message not recorded
Enqueue(limit, chatId, prompt, override, dt) ==
  /\ queueJob(limit, chatId, prompt, override, dt)
  /\ UNCHANGED inbox
  /\ UNCHANGED memCmd

\* ------------------------------------------------------ worker loop actions
\* CodexCliProvider.abort has no await of its own, so `await provider.abort(j)`
\* in cancelJob resumes in a microtask: before any timer, I/O completion or child
\* event is delivered.  Only handlers entered from the same batch of updates
\* (another message's enqueueJob or cancelJob) can run in between.  Every segment
\* that a timer, an I/O completion or a child event starts waits for this.
NoMicrotask ==
  \A c \in CancelIds : cancels[c].pc = "aborting" => cancels[c].abortOn # <<"codex">>

\* the loop comes round, after runJob returned or after `await sleep(750)`:
\* load, pick, claim, runJob's prefix; with nothing queued it sleeps again
Poll(w) ==
  /\ NoMicrotask
  /\ loops[w].pc = "poll"
  /\ LET it == Iteration(loadJobs, clock)
     IN /\ store' = it.store
        /\ loops' = [loops EXCEPT ![w] = it.loop]
        /\ claimed' = Marked(it.claim)
  /\ UNCHANGED <<clock, nextId, booted, workerRunning, codexRunning, geminiAborted,
                 cancels, chatRepo, chatProvider, captured, cancelSeen, finalized, zeroAfterCancel>>
  /\ UNCHANGED killTimer
  /\ UNCHANGED prov
  /\ UNCHANGED capture
  /\ UNCHANGED summaries
  /\ UNCHANGED documents
  /\ UNCHANGED heartbeat
  /\ UNCHANGED toolLoop
  /\ UNCHANGED jobsFile
  /\ UNCHANGED lookedUp
  /\ UNCHANGED inbox
  /\ UNCHANGED notified
  /\ UNCHANGED outbox
  /\ UNCHANGED memCmd

ChildPid(w) == w

\* onPid (runJob lines 133-138): the write goes through runJob's own db of line 85
OnPid(db, j, pid) ==
  LET j1 == [j EXCEPT !.pid = pid]
  IN [j |-> j1, db |-> upsertJob(db, j1)]

\* "Job started" was sent; CodexCliProvider.execute from spawn to its await:
\* running.set(job.id, child), onPid(child.pid), timers armed
CodexSpawn(w, spawned) ==
  /\ NoMicrotask
  /\ loops[w].pc = "started"
  /\ loops[w].provider = "codex"
  /\ LET id == loops[w].j.id
         r  == OnPid(loops[w].db, loops[w].j, IF spawned THEN ChildPid(w) ELSE Null)
     IN /\ codexRunning' = [codexRunning EXCEPT ![id] = w]
        /\ store' = r.db
        /\ loops' = [loops EXCEPT ![w].pc = "executing", ![w].j = r.j, ![w].db = <<>>,
                                  ![w].child = IF spawned THEN "alive" ELSE "spawn_error"]
        /\ killTimer' = [killTimer EXCEPT ![w] = TRUE]
  /\ UNCHANGED <<clock, nextId, booted, workerRunning, geminiAborted, cancels,
                 chatRepo, chatProvider, captured, claimed, cancelSeen, finalized, zeroAfterCancel>>
  /\ UNCHANGED prov
  /\ UNCHANGED capture
  /\ UNCHANGED summaries
  /\ UNCHANGED documents
  /\ UNCHANGED heartbeat
  /\ UNCHANGED toolLoop
  /\ UNCHANGED jobsFile
  /\ UNCHANGED lookedUp
  /\ UNCHANGED inbox
  /\ UNCHANGED notified
  /\ UNCHANGED outbox
  /\ UNCHANGED memCmd

\* "Job started" was sent; GeminiProvider.execute runs to its first await (no onPid)
GeminiBegin(w) ==
  /\ NoMicrotask
  /\ loops[w].pc = "started"
  /\ loops[w].provider = "gemini"
  /\ loops' = [loops EXCEPT ![w].pc = "executing", ![w].db = <<>>]
  /\ UNCHANGED <<store, clock, nextId, booted, workerRunning, codexRunning,
                 geminiAborted, cancels, chatRepo, chatProvider, captured, claimed,
                 cancelSeen, finalized, zeroAfterCancel>>
  /\ UNCHANGED killTimer
  /\ UNCHANGED prov
  /\ UNCHANGED capture
  /\ UNCHANGED summaries
  /\ UNCHANGED documents
  /\ UNCHANGED heartbeat
  /\ UNCHANGED toolLoop
  /\ UNCHANGED jobsFile
  /\ UNCHANGED lookedUp
  /\ UNCHANGED inbox
  /\ UNCHANGED notified
  /\ UNCHANGED outbox
  /\ UNCHANGED memCmd

\* Telegram rejects the "Job started" message with an error sendMessageSafe does
\* not retry (`throw e`): runJob rejects before execute is called, the loop's
\* catch logs it, sleeps 1500 ms and comes round.  Nothing is written.
StartedRejected(w) ==
  /\ NoMicrotask
  /\ loops[w].pc = "started"
  /\ loops' = [loops EXCEPT ![w] = [IdleLoop EXCEPT !.pc = "poll"]]
  /\ UNCHANGED <<store, clock, nextId, booted, workerRunning, codexRunning,
                 geminiAborted, cancels, chatRepo, chatProvider, captured, claimed,
                 cancelSeen, finalized, zeroAfterCancel>>
  /\ UNCHANGED killTimer
  /\ UNCHANGED prov
  /\ UNCHANGED capture
  /\ UNCHANGED summaries
  /\ UNCHANGED documents
  /\ UNCHANGED heartbeat
  /\ UNCHANGED toolLoop
  /\ UNCHANGED jobsFile
  /\ UNCHANGED lookedUp
  /\ UNCHANGED inbox
  /\ UNCHANGED notified
  /\ UNCHANGED outbox
  /\ UNCHANGED memCmd

\* result?.exitInfo || { code: 1, signal: "unknown" }, runJob line 146
DefaultExit == ExitInfo(1, "unknown")

exitInfoOf(exit) == IF exit = NoExit THEN DefaultExit ELSE exit

\* mutant of FinalStatus: every exit with a code counts as success
FinalStatusAnyCode(status, exit) ==
  IF status # "canceled"
  THEN (IF exit.code >= 0 THEN "succeeded" ELSE "failed")
  ELSE status

\* runJob lines 156-158
FinalStatus(status, exit) ==
  IF status # "canceled"
  THEN (IF exit.code = 0 THEN "succeeded" ELSE "failed")
  ELSE status

\* runJob lines 146-161 after execute returned exit: re-load, stamp, decide, save
Finalize(w, exit) ==
  LET id  == loops[w].j.id
      exitInfo == exitInfoOf(exit)
      db2 == loadJobs
      j2  == getJob(db2, id)
      j3  == [j2 EXCEPT !.finishedAt = clock, !.exit = exitInfo,
                        !.status = FinalStatus(j2.status, exitInfo)]
  IN /\ zeroAfterCancel' = IF exitInfo.code = 0 /\ id \in cancelSeen
                           THEN zeroAfterCancel \cup {id} ELSE zeroAfterCancel
     /\ IF ~HasJob(db2, id)
        THEN /\ store' = store
             /\ finalized' = finalized
             /\ loops' = [loops EXCEPT ![w] = [IdleLoop EXCEPT !.pc = "poll"]]
        ELSE /\ store' = upsertJob(db2, j3)
             /\ finalized' = finalized \cup {id}
             /\ loops' = [loops EXCEPT ![w].pc = "summary", ![w].j = j3, ![w].db = <<>>,
                                       ![w].child = "none", ![w].exit = exitInfo]

\* mutant of clearTimeout: the timer is left armed
clearTimeoutNot(timers, w) == timers

\* clearTimeout(killTimer), execute line 91
clearTimeout(timers, w) == [timers EXCEPT ![w] = FALSE]

\* killTimer fires CODEX_TIMEOUT_MS after the spawn (execute lines 77-84): the
\* timeout marker is written to the log and the child is sent SIGKILL.  On a
\* child that is gone the write and the kill have no effect.
KillTimer(w) ==
  /\ NoMicrotask
  /\ NoNextTick
  /\ killTimer[w]
  /\ killTimer' = [killTimer EXCEPT ![w] = FALSE]
  /\ loops' = IF loops[w].pc = "executing" /\ loops[w].child = "alive"
              THEN [loops EXCEPT ![w].child = "timedout"]
              ELSE loops
  /\ UNCHANGED <<store, clock, nextId, booted, workerRunning, codexRunning,
                 geminiAborted, cancels, chatRepo, chatProvider, captured, claimed,
                 cancelSeen, finalized, zeroAfterCancel>>
  /\ UNCHANGED prov
  /\ UNCHANGED capture
  /\ UNCHANGED summaries
  /\ UNCHANGED documents
  /\ UNCHANGED heartbeat
  /\ UNCHANGED toolLoop
  /\ UNCHANGED jobsFile
  /\ UNCHANGED lookedUp
  /\ UNCHANGED inbox
  /\ UNCHANGED notified
  /\ UNCHANGED outbox
  /\ UNCHANGED memCmd

\* "Job started" was sent and spawn (execute line 39) throws, as Node's spawn
\* does for the errors it does not report by event (ENOMEM, E2BIG, ...):
\* execute rejects before running.set and onPid, runJob's catch (lines 140-144)
\* makes the result, then the finalization
SpawnThrows(w) ==
  /\ NoMicrotask
  /\ loops[w].pc = "started"
  /\ loops[w].provider = "codex"
  /\ Finalize(w, ExitInfo(1, "provider_error"))
  /\ UNCHANGED <<clock, nextId, booted, workerRunning, codexRunning, geminiAborted,
                 cancels, chatRepo, chatProvider, captured, claimed, cancelSeen>>
  /\ UNCHANGED killTimer
  /\ UNCHANGED prov
  /\ UNCHANGED capture
  /\ UNCHANGED summaries
  /\ UNCHANGED documents
  /\ UNCHANGED heartbeat
  /\ UNCHANGED toolLoop
  /\ UNCHANGED jobsFile
  /\ UNCHANGED lookedUp
  /\ UNCHANGED inbox
  /\ UNCHANGED notified
  /\ UNCHANGED outbox
  /\ UNCHANGED memCmd

\* execute lines 86-89: the close event of a child that exited by itself or
\* was killed, or the error event of a child that could not be spawned
exitPromise(child, code) ==
  CASE child = "alive" -> ExitInfo(code, "null")
    [] child \in {"killed", "timedout"} -> ExitInfo(NullCode, "SIGKILL")
    [] OTHER -> ExitInfo(1, "spawn_error")

\* the child's close or error event (execute lines 86-104), then the finalization
CodexClose(w, code) ==
  /\ NoMicrotask
  /\ loops[w].pc = "executing"
  /\ loops[w].provider = "codex"
  /\ Finalize(w, exitPromise(loops[w].child, code))
  /\ killTimer' = clearTimeout(killTimer, w)
  /\ codexRunning' = [codexRunning EXCEPT ![loops[w].j.id] = 0]
  /\ UNCHANGED <<clock, nextId, booted, workerRunning, geminiAborted, cancels,
                 chatRepo, chatProvider, captured, claimed, cancelSeen>>
  /\ UNCHANGED prov
  /\ UNCHANGED capture
  /\ UNCHANGED summaries
  /\ UNCHANGED documents
  /\ UNCHANGED heartbeat
  /\ UNCHANGED toolLoop
  /\ UNCHANGED jobsFile
  /\ UNCHANGED lookedUp
  /\ UNCHANGED inbox
  /\ UNCHANGED notified
  /\ UNCHANGED outbox
  /\ UNCHANGED memCmd

\* GeminiProvider.execute returns (lines 178-207) or raises, then the finalization
GeminiReturn(w, raised) ==
  /\ NoMicrotask
  /\ loops[w].pc = "executing"
  /\ loops[w].provider = "gemini"
  /\ LET id == loops[w].j.id
         exit == IF raised THEN ExitInfo(1, "provider_error")
                 ELSE IF id \in geminiAborted THEN ExitInfo(AbortedCode, "aborted")
                 ELSE ExitInfo(0, "null")
     IN /\ Finalize(w, exit)
        /\ geminiAborted' = IF raised THEN geminiAborted ELSE geminiAborted \ {id}
  /\ UNCHANGED <<clock, nextId, booted, workerRunning, codexRunning, cancels,
                 chatRepo, chatProvider, captured, claimed, cancelSeen>>
  /\ UNCHANGED killTimer
  /\ UNCHANGED prov
  /\ UNCHANGED capture
  /\ UNCHANGED summaries
  /\ UNCHANGED documents
  /\ UNCHANGED heartbeat
  /\ UNCHANGED toolLoop
  /\ UNCHANGED jobsFile
  /\ UNCHANGED lookedUp
  /\ UNCHANGED inbox
  /\ UNCHANGED notified
  /\ UNCHANGED outbox
  /\ UNCHANGED memCmd

\* runJob line 187: long is logText.length > MAX_INLINE_OUTPUT_CHARS, status is
\* j2.status as the finalization left it
sendsDocument(long, status) == long \/ status # "succeeded"

\* runJob lines 181-185: one sendMessageSafe call with the tail summary or with
\* the 'output is large' notice.  It delivers the text, or Telegram refuses it
\* and the call throws (telegram helper line 39).
sendSummary(n, delivered) == IF delivered THEN n + 1 ELSE n

\* runJob lines 163-195: the log is read, the summary is sent, then the log
\* document if line 187 asks for it, then the PR links; or the summary was
\* rejected, runJob threw at line 182 or 184 and the loop's catch took over.
\* Either way the loop comes round with nothing written.
Summarize(w, delivered, long) ==
  /\ NoMicrotask
  /\ loops[w].pc = "summary"
  /\ summaries' = [summaries EXCEPT ![loops[w].j.id] = sendSummary(@, delivered)]
  /\ documents' = [documents EXCEPT ![loops[w].j.id] =
                     [sent |-> IF delivered /\ sendsDocument(long, loops[w].j.status)
                               THEN @.sent + 1 ELSE @.sent,
                      long |-> long]]
  /\ notified' = IF delivered
                 THEN [notified EXCEPT ![loops[w].j.id] = loops[w].j.status]
                 ELSE notified
  /\ loops' = [loops EXCEPT ![w] = [IdleLoop EXCEPT !.pc = "poll"]]
  /\ UNCHANGED <<store, clock, nextId, booted, workerRunning, codexRunning,
                 geminiAborted, cancels, chatRepo, chatProvider, captured, claimed,
                 cancelSeen, finalized, zeroAfterCancel>>
  /\ UNCHANGED killTimer
  /\ UNCHANGED prov
  /\ UNCHANGED capture
  /\ UNCHANGED heartbeat
  /\ UNCHANGED toolLoop
  /\ UNCHANGED jobsFile
  /\ UNCHANGED lookedUp
  /\ UNCHANGED inbox
  /\ UNCHANGED outbox
  /\ UNCHANGED memCmd

\* ------------------------------------------------------------------- cancel
\* mutants of CancelReason: queued jobs can be canceled too; no ownership check
CancelReasonQueuedToo(j, chatId) ==
  IF j.id = 0 \/ j.chatId # chatId THEN "not_found"
  ELSE IF j.status \notin {"running", "queued"} THEN "not_running"
  ELSE "ok"

CancelReasonAnyChat(j, chatId) ==
  IF j.id = 0 THEN "not_found"
  ELSE IF j.status # "running" THEN "not_running"
  ELSE "ok"

\* cancelJob lines 227-228
CancelReason(j, chatId) ==
  IF j.id = 0 \/ j.chatId # chatId THEN "not_found"
  ELSE IF j.status # "running" THEN "not_running"
  ELSE "ok"

\* cancelJob up to `await provider.abort(j)`: lookup, then abort's run to its await.
\* CodexCliProvider.abort kills the registered child and forgets it;
\* GeminiProvider.abort sets the flag and sleeps 50 ms.
cancelJob(c, chatId, id) ==
  /\ booted
  /\ NoNextTick
  /\ cancels[c].pc = "idle"
  /\ \A k \in CancelIds : k < c => cancels[k].pc # "idle"
  /\ LET db == loadJobs
         j  == getJob(db, id)
         reason == CancelReason(j, chatId)
         p  == getProvider(RunProviderName(j))
         w  == codexRunning[id]
     IN IF reason # "ok"
        THEN /\ cancels' = [cancels EXCEPT ![c] = [@ EXCEPT !.pc = "done", !.chatId = chatId,
                                                          !.id = id, !.result = reason]]
             /\ UNCHANGED <<loops, codexRunning, geminiAborted, cancelSeen>>
        ELSE /\ cancels' = [cancels EXCEPT ![c] = [pc |-> "aborting", chatId |-> chatId,
                                                   id |-> id, db |-> db, j |-> j,
                                                   result |-> "none", abortOn |-> <<p>>,
                                                   abortRet |-> (p = "gemini" \/ w # 0)]]
             /\ cancelSeen' = cancelSeen \cup {id}
             /\ IF p = "gemini"
                THEN /\ geminiAborted' = geminiAborted \cup {id}
                     /\ UNCHANGED <<loops, codexRunning>>
                ELSE /\ geminiAborted' = geminiAborted
                     /\ codexRunning' = [codexRunning EXCEPT ![id] = 0]
                     /\ loops' = IF w # 0 /\ loops[w].child = "alive"
                                 THEN [loops EXCEPT ![w].child = "killed"]
                                 ELSE loops
  /\ UNCHANGED <<store, clock, nextId, booted, workerRunning, chatRepo, chatProvider,
                 captured, claimed, finalized, zeroAfterCancel>>
  /\ UNCHANGED killTimer
  /\ UNCHANGED prov
  /\ UNCHANGED capture
  /\ UNCHANGED summaries
  /\ UNCHANGED documents
  /\ UNCHANGED heartbeat
  /\ UNCHANGED toolLoop
  /\ UNCHANGED jobsFile
  /\ UNCHANGED lookedUp
  /\ UNCHANGED notified
  /\ UNCHANGED outbox
  /\ UNCHANGED memCmd

\* the /cancel command up to cancelJob's await, its message not recorded
CancelStart(c, chatId, id) ==
  /\ cancelJob(c, chatId, id)
  /\ UNCHANGED inbox

\* cancelJob lines 233-236
CanceledJob(j) == [j EXCEPT !.status = "canceled"]

\* abort returned: mark the record of the lookup canceled in the db of the lookup, save
cancelJobReturns(c) ==
  /\ cancels[c].pc = "aborting"
  /\ NoNextTick
  /\ cancels[c].abortOn = <<"codex">> \/ NoMicrotask
  /\ store' = upsertJob(cancels[c].db, CanceledJob(cancels[c].j))
  /\ cancels' = [cancels EXCEPT ![c].pc = "done", ![c].result = "ok", ![c].db = <<>>,
                                 ![c].j = NoJob]
  /\ UNCHANGED <<clock, nextId, booted, workerRunning, loops, codexRunning,
                 geminiAborted, chatRepo, chatProvider, captured, claimed,
                 cancelSeen, finalized, zeroAfterCancel>>
  /\ UNCHANGED killTimer
  /\ UNCHANGED prov
  /\ UNCHANGED capture
  /\ UNCHANGED summaries
  /\ UNCHANGED documents
  /\ UNCHANGED heartbeat
  /\ UNCHANGED toolLoop
  /\ UNCHANGED jobsFile
  /\ UNCHANGED lookedUp
  /\ UNCHANGED notified
  /\ UNCHANGED outbox
  /\ UNCHANGED memCmd

\* cancelJob returns to the /cancel command, its message not recorded
CancelFinish(c) ==
  /\ cancelJobReturns(c)
  /\ UNCHANGED inbox

\* ------------------------------------------------------------ specification
\* sent: the outcomes the summary send can have; longs: whether the log read
\* at line 163 can be longer than MAX_INLINE_OUTPUT_CHARS
WorkerWith(sent, longs) ==
  \/ \E w \in LoopIds : Poll(w)
  \/ \E w \in LoopIds, spawned \in BOOLEAN : CodexSpawn(w, spawned)
  \/ \E w \in LoopIds : SpawnThrows(w)
  \/ \E w \in LoopIds : GeminiBegin(w)
  \/ \E w \in LoopIds : StartedRejected(w)
  \/ \E w \in LoopIds, code \in {0, 1} : CodexClose(w, code)
  \/ \E w \in LoopIds, raised \in BOOLEAN : GeminiReturn(w, raised)
  \/ \E w \in LoopIds, delivered \in sent, long \in longs : Summarize(w, delivered, long)

\* ------------------------------------------------------------ the message gate
\* The engine and its histories: everything but the record of the messages
\* received and the helper and command calls looked at on their own.
engine == <<store, clock, nextId, booted, workerRunning, loops, codexRunning,
            geminiAborted, cancels, chatRepo, chatProvider, captured, claimed,
            cancelSeen, finalized, zeroAfterCancel, killTimer, prov, capture,
            summaries, documents, heartbeat, toolLoop, jobsFile, lookedUp,
            notified>>


isAllowedAll(allowed, chatId) == TRUE

\* isAllowed(msg) for a message of chat chatId, ALLOWED_CHAT_ID being `allowed`
\* ("" when the variable is unset: null)
isAllowed(allowed, chatId) == allowed = "" \/ chatId = allowed

\* `if (!isAllowed(msg)) return;` has returned
Dropped(chatId) ==
  /\ inbox' = [inbox EXCEPT !.received = @ + 1, !.chat = chatId, !.allowed = FALSE]
  /\ UNCHANGED <<engine, outbox, memCmd>>

\* the message was let in; replied: its command has answered by now
Handled(chatId, replied) ==
  inbox' = [received |-> inbox.received + 1, chat |-> chatId, allowed |-> TRUE,
            replies |-> IF replied THEN [inbox.replies EXCEPT ![chatId] = @ + 1]
                        ELSE inbox.replies]


\* The worker loop where the outcome of the summary send and the length of
\* the log play no part.
Worker == WorkerWith({TRUE}, {FALSE})

Cancel ==
  \/ \E c \in CancelIds, chatId \in Chats, id \in JobIds : CancelStart(c, chatId, id)
  \/ \E c \in CancelIds : CancelFinish(c)

\* The engine: boot, /codex /gemini /ask and /cancel messages, the worker loop.
Next ==
  \/ Boot
  \/ \E chatId \in Chats, prompt \in OnePrompt, o \in ProviderNames \cup {NoOverride} :
        Enqueue(MaxJobs, chatId, prompt, o, 0)
  \/ Worker
  \/ Cancel

Spec == Init /\ [][Next]_vars

\* The engine without /cancel, one more job, and a clock that may move between
\* job creations.
NextFifo ==
  \/ Boot
  \/ \E chatId \in Chats, prompt \in OnePrompt, o \in ProviderNames \cup {NoOverride},
        dt \in {0, 1} :
        Enqueue(MaxFifoJobs, chatId, prompt, o, dt)
  \/ Worker

SpecFifo == Init /\ [][NextFifo]_vars

\* The engine with the /setrepo and /setprovider messages.  One chat changes its
\* repo and its default provider, as often as it likes; the jobs of both chats
\* run beside it, so a job of the other chat shows what a chat that never
\* changed anything gets.
NextRouting ==
  \/ Next
  \/ \E chatId \in {"chatA"}, wd \in Workdirs : SetRepo(chatId, wd)
  \/ \E chatId \in {"chatA"}, p \in ProviderNames : SetProvider(chatId, p)

SpecRouting == Init /\ [][NextRouting]_vars

\* --------------------------------------------- the providers on their own
\* execute(job) is called on provider p and runs to its first await
\* (CodexCliProvider: running.set(job.id, child))
ProvExecute(p, id) ==
  /\ prov[p][id].exec = "none"
  /\ prov' = [prov EXCEPT ![p][id].exec = "live"]
  /\ codexRunning' = IF p = "codex" THEN [codexRunning EXCEPT ![id] = 1] ELSE codexRunning
  /\ UNCHANGED <<store, clock, nextId, booted, workerRunning, loops, geminiAborted,
                 cancels, chatRepo, chatProvider, captured, claimed, cancelSeen,
                 finalized, zeroAfterCancel, killTimer>>
  /\ UNCHANGED capture
  /\ UNCHANGED summaries
  /\ UNCHANGED documents
  /\ UNCHANGED heartbeat
  /\ UNCHANGED toolLoop
  /\ UNCHANGED jobsFile
  /\ UNCHANGED lookedUp
  /\ UNCHANGED inbox
  /\ UNCHANGED notified
  /\ UNCHANGED outbox
  /\ UNCHANGED memCmd

\* the execution ends: CodexCliProvider line 94 running.delete(job.id);
\* GeminiProvider line 181 aborted.delete(job.id) when the flag was seen
ProvFinish(p, id) ==
  /\ prov[p][id].exec = "live"
  /\ prov' = [prov EXCEPT ![p][id].exec = "finished"]
  /\ codexRunning' = IF p = "codex" THEN [codexRunning EXCEPT ![id] = 0] ELSE codexRunning
  /\ geminiAborted' = IF p = "gemini" THEN geminiAborted \ {id} ELSE geminiAborted
  /\ UNCHANGED <<store, clock, nextId, booted, workerRunning, loops,
                 cancels, chatRepo, chatProvider, captured, claimed, cancelSeen,
                 finalized, zeroAfterCancel, killTimer>>
  /\ UNCHANGED capture
  /\ UNCHANGED summaries
  /\ UNCHANGED documents
  /\ UNCHANGED heartbeat
  /\ UNCHANGED toolLoop
  /\ UNCHANGED jobsFile
  /\ UNCHANGED lookedUp
  /\ UNCHANGED inbox
  /\ UNCHANGED notified
  /\ UNCHANGED outbox
  /\ UNCHANGED memCmd

\* what abort(job) returns: CodexCliProvider.abort lines 108-117 (false with no
\* child registered, else true after the kill; a kill that throws, which gives
\* false, is left out), GeminiProvider.abort line 213
AbortReturns(p, id) == IF p = "gemini" THEN TRUE ELSE codexRunning[id] # 0

\* abort(job) is called on provider p and returns
ProvAbort(p, id) ==
  /\ prov[p][id].aborts < MaxAborts
  /\ prov' = [prov EXCEPT ![p][id].aborts = @ + 1,
                          ![p][id].ret = AbortReturns(p, id),
                          ![p][id].signaled = @ \/ prov[p][id].exec = "live"]
  /\ codexRunning' = IF p = "codex" THEN [codexRunning EXCEPT ![id] = 0] ELSE codexRunning
  /\ geminiAborted' = IF p = "gemini" THEN geminiAborted \cup {id} ELSE geminiAborted
  /\ UNCHANGED <<store, clock, nextId, booted, workerRunning, loops,
                 cancels, chatRepo, chatProvider, captured, claimed, cancelSeen,
                 finalized, zeroAfterCancel, killTimer>>
  /\ UNCHANGED capture
  /\ UNCHANGED summaries
  /\ UNCHANGED documents
  /\ UNCHANGED heartbeat
  /\ UNCHANGED toolLoop
  /\ UNCHANGED jobsFile
  /\ UNCHANGED lookedUp
  /\ UNCHANGED inbox
  /\ UNCHANGED notified
  /\ UNCHANGED outbox
  /\ UNCHANGED memCmd

NextAbort ==
  \/ \E p \in ProviderNames, id \in JobIds : ProvExecute(p, id)
  \/ \E p \in ProviderNames, id \in JobIds : ProvFinish(p, id)
  \/ \E p \in ProviderNames, id \in JobIds : ProvAbort(p, id)

SpecAbort == Init /\ [][NextAbort]_vars

\* ------------------------------------------------------- output capture
\* mutant of Slice: the head is kept instead of the tail
SliceHead(t, limit) == IF Len(t) > limit THEN SubSeq(t, 1, limit) ELSE t

\* if (combinedTail.length > tailLimit)
\*   combinedTail = combinedTail.slice(combinedTail.length - tailLimit)
Slice(t, limit) == IF Len(t) > limit THEN SubSeq(t, Len(t) - limit + 1, Len(t)) ELSE t

\* CodexCliProvider onData (lines 64-72): write to the log, extend the tail, cut it
onData(c, s) ==
  [c EXCEPT !.sink = @ \o s, !.combinedTail = Slice(@ \o s, tailLimit)]

\* GeminiProvider appendText (lines 97-104): the same, after `if (!text) return`
appendText(c, text) ==
  IF text = <<>> THEN c
  ELSE [c EXCEPT !.sink = @ \o text, !.combinedTail = Slice(@ \o text, tailLimit)]

RECURSIVE Concat(_)
Concat(ss) == IF ss = <<>> THEN <<>> ELSE Head(ss) \o Concat(Tail(ss))

\* a chunk of output arrives at the capture of provider p
Feed(p, chunk) ==
  /\ capture.provider \in {"none", p}
  /\ Len(capture.chunks) < MaxFeeds
  /\ Len(Concat(capture.chunks)) + Len(chunk) <= MaxFed
  /\ LET c == [capture EXCEPT !.provider = p, !.chunks = Append(@, chunk)]
     IN capture' = IF p = "codex" THEN onData(c, chunk) ELSE appendText(c, chunk)
  /\ UNCHANGED <<store, clock, nextId, booted, workerRunning, loops, codexRunning,
                 geminiAborted, cancels, chatRepo, chatProvider, captured, claimed,
                 cancelSeen, finalized, zeroAfterCancel, killTimer, prov>>
  /\ UNCHANGED summaries
  /\ UNCHANGED documents
  /\ UNCHANGED heartbeat
  /\ UNCHANGED toolLoop
  /\ UNCHANGED jobsFile
  /\ UNCHANGED lookedUp
  /\ UNCHANGED inbox
  /\ UNCHANGED notified
  /\ UNCHANGED outbox
  /\ UNCHANGED memCmd

NextCapture == \E p \in ProviderNames, chunk \in Chunks : Feed(p, chunk)

SpecCapture == Init /\ [][NextCapture]_vars

\* The engine with the provider's hard timeout.
NextTimeout ==
  \/ Next
  \/ \E w \in LoopIds : KillTimer(w)

SpecTimeout == Init /\ [][NextTimeout]_vars


\* ------------------------------------------------------------------- claims
Running(db) == {i \in 1..Len(db) : db[i].status = "running"}

\* no loop is between claiming id and finalizing it, no cancelJob on id is in flight
Settled(id) ==
  /\ \A w \in LoopIds : loops[w].pc \in {"started", "executing"} => loops[w].j.id # id
  /\ \A c \in CancelIds : cancels[c].pc = "aborting" => cancels[c].id # id

\* cancelJob call c runs from its entry to its first await (or to its early return)
CancelEntry(c) == cancels[c].pc = "idle" /\ cancels'[c].pc # "idle"

\* cancelJob call c resumes after abort and returns
CancelExit(c) == cancels[c].pc = "aborting" /\ cancels'[c].pc = "done"

\* loop w runs provider.execute from its call to its first await
ExecuteEntry(w) == loops[w].pc = "started" /\ loops'[w].pc = "executing"

\* C1: a job on which cancelJob found status running, and whose execution then
\* returned exit code 0, is never persisted as succeeded, and once the cancel and
\* the run are over its persisted status is canceled.
C1_CancelWins ==
  \A id \in zeroAfterCancel :
     HasJob(store, id) =>
        /\ StatusOf(store, id) # "succeeded"
        /\ Settled(id) => StatusOf(store, id) = "canceled"

\* C2: no step removes a record from the store.
C2_NeverDeleted == [][Ids(store) \subseteq Ids(store')]_vars

\* C3: at most one record of the store has status running.
C3_AtMostOneRunning == Cardinality(Running(store)) <= 1

\* C4: jobs are marked running in creation order (ids are handed out in creation
\* order), a job's execute starts only after every earlier job's terminal status
\* was saved by the finalization, and two executes are never in progress together.
C4_Fifo ==
  /\ \A b \in claimed : \A a \in 1..(b - 1) : a \in claimed
  /\ \A w \in LoopIds :
        loops[w].pc = "executing" => \A a \in 1..(loops[w].j.id - 1) : a \in finalized
  /\ Cardinality({w \in LoopIds : loops[w].pc = "executing"}) <= 1

\* C5: a persisted status of succeeded, failed or canceled is not changed by any
\* later write to the store.
C5_TerminalIsFinal ==
  [][\A id \in AllIds :
       (HasJob(store, id) /\ StatusOf(store, id) \in Terminal /\ HasJob(store', id))
          => StatusOf(store', id) = StatusOf(store, id)]_vars

\* C6: the write of onPid changes nothing in the store but the pid of the job
\* being executed: the store after it is the store before it with that one field
\* set.
C6_OnPidPreserves ==
  [][\A w \in LoopIds :
       (ExecuteEntry(w) /\ loops[w].provider = "codex")
          => /\ HasJob(store, loops[w].j.id)
             /\ store' = upsertJob(store, [getJob(store, loops[w].j.id)
                                             EXCEPT !.pid = loops'[w].j.pid])]_vars

\* C7: every stored record carries the workdir and the provider name that
\* enqueueJob captured for its id, whatever has been written since, and a loop
\* that is about to call or has called provider.execute for a job calls it with
\* that workdir on the provider resolved from that name, whatever the chat's
\* repo and default provider are by then.
C7_RoutingCaptured ==
  /\ \A i \in 1..Len(store) :
        /\ store[i].workdir = captured[store[i].id].workdir
        /\ store[i].provider = captured[store[i].id].provider
  /\ \A w \in LoopIds :
        loops[w].pc \in {"started", "executing"} =>
          /\ loops[w].workdir = captured[loops[w].j.id].workdir
          /\ loops[w].provider = getProvider(captured[loops[w].j.id].provider)

\* a job is executing while its chat's repo and default provider both differ
\* from what the job runs with
C7_Witness ==
  \E w \in LoopIds :
     /\ loops[w].pc = "executing"
     /\ HasJob(store, loops[w].j.id)
     /\ chatRepo[loops[w].j.chatId] # ""
     /\ chatProvider[loops[w].j.chatId] # ""
     /\ getChatWorkdir(loops[w].j.chatId) # loops[w].workdir
     /\ getChatProvider(loops[w].j.chatId) # loops[w].provider

\* cancelJob call c left the store and both providers as they were, and called no abort
CancelNoEffect(c) ==
  /\ store' = store
  /\ loops' = loops
  /\ codexRunning' = codexRunning
  /\ geminiAborted' = geminiAborted
  /\ cancels'[c].abortOn = <<>>
  /\ cancels'[c].pc = "done"

\* C8 as stated: cancelJob on a job whose persisted status is queued, succeeded,
\* failed or canceled returns not_running, calls no abort and leaves the store
\* unchanged, whoever calls it.
C8_AsStated ==
  [][\A c \in CancelIds :
       (/\ CancelEntry(c)
        /\ HasJob(store, cancels'[c].id)
        /\ StatusOf(store, cancels'[c].id) \in {"queued"} \cup Terminal)
          => (cancels'[c].result = "not_running" /\ CancelNoEffect(c))]_vars

\* C8 amended: cancelJob called from the job's own chat on a job whose persisted
\* status is queued, succeeded, failed or canceled returns not_running, calls no
\* abort and leaves the store unchanged.
C8_NotRunning ==
  [][\A c \in CancelIds :
       (/\ CancelEntry(c)
        /\ HasJob(store, cancels'[c].id)
        /\ getJob(store, cancels'[c].id).chatId = cancels'[c].chatId
        /\ StatusOf(store, cancels'[c].id) \in {"queued"} \cup Terminal)
          => (cancels'[c].result = "not_running" /\ CancelNoEffect(c))]_vars

C8_Witness ==
  \E c \in CancelIds :
     /\ cancels[c].pc = "done"
     /\ cancels[c].result = "not_running"
     /\ HasJob(store, cancels[c].id)
     /\ StatusOf(store, cancels[c].id) = "succeeded"

\* C9: cancelJob for an id that is not in the store, or whose record belongs to
\* another chat, returns not_found, calls no abort and writes nothing; and no
\* cancelJob call of one chat changes the status of a job of another chat: every
\* such job in the store before a step of the call is there after it, with the
\* status it had.
C9_Isolation ==
  [][\A c \in CancelIds :
       /\ (/\ CancelEntry(c)
           /\ \/ ~HasJob(store, cancels'[c].id)
              \/ getJob(store, cancels'[c].id).chatId # cancels'[c].chatId)
             => (cancels'[c].result = "not_found" /\ CancelNoEffect(c))
       /\ (CancelEntry(c) \/ CancelExit(c))
             => \A id \in AllIds :
                   (HasJob(store, id) /\ getJob(store, id).chatId # cancels'[c].chatId)
                      => (HasJob(store', id) /\ StatusOf(store', id) = StatusOf(store, id))]_vars

\* C10: cancelJob goes on to abort exactly when the job exists, belongs to the
\* caller's chat and is running at the lookup; otherwise it returns not_found or
\* not_running at once.  When it goes on, abort is called once, on the gemini
\* provider for a gemini job and on the codex provider otherwise, and the call
\* returns ok with the job persisted as canceled, whatever abort returned.  ok is
\* returned in no other way.
C10_CancelOk ==
  [][\A c \in CancelIds :
       /\ CancelEntry(c) =>
            LET id == cancels'[c].id
                found == /\ HasJob(store, id)
                         /\ getJob(store, id).chatId = cancels'[c].chatId
                         /\ StatusOf(store, id) = "running"
            IN /\ (cancels'[c].pc = "aborting") <=> found
               /\ found =>
                    /\ cancels'[c].result = "none"
                    /\ IF getJob(store, id).provider = "gemini"
                       THEN cancels'[c].abortOn = <<"gemini">> /\ id \in geminiAborted'
                       ELSE cancels'[c].abortOn = <<"codex">> /\ codexRunning'[id] = 0
               /\ ~found =>
                    /\ cancels'[c].pc = "done"
                    /\ cancels'[c].result \in {"not_found", "not_running"}
                    /\ cancels'[c].abortOn = <<>>
       /\ CancelExit(c) =>
            /\ cancels'[c].result = "ok"
            /\ cancels'[c].abortOn = cancels[c].abortOn
            /\ HasJob(store', cancels[c].id)
            /\ StatusOf(store', cancels[c].id) = "canceled"
       /\ (cancels'[c].result = "ok" /\ cancels[c].result # "ok") => CancelExit(c)]_vars

C10_Witness ==
  \E c \in CancelIds :
     /\ cancels[c].pc = "done"
     /\ cancels[c].result = "ok"
     /\ ~cancels[c].abortRet
     /\ StatusOf(store, cancels[c].id) = "canceled"

\* C11: when provider.execute raises, the step that handles it finalizes the
\* job: its record is in the store with exit {code 1, signal provider_error} and
\* status failed (canceled if it was canceled already), and the loop goes on
\* to the summary, after which it comes round for the next job.
C11_ProviderError ==
  [][\A w \in LoopIds :
       GeminiReturn(w, TRUE) =>
          LET id == loops[w].j.id
          IN /\ HasJob(store', id)
             /\ getJob(store', id).exit = ExitInfo(1, "provider_error")
             /\ StatusOf(store', id) =
                   (IF HasJob(store, id) /\ StatusOf(store, id) = "canceled"
                    THEN "canceled" ELSE "failed")
             /\ loops'[w].pc = "summary"]_vars

\* the exits a provider can hand to the finalization, and none at all
Exits ==
  {ExitInfo(0, "null"), ExitInfo(1, "null"), ExitInfo(NullCode, "SIGKILL"),
   ExitInfo(1, "spawn_error"), ExitInfo(1, "provider_error"),
   ExitInfo(AbortedCode, "aborted"), NoExit}

\* C12: a finalization that finds the record with a status other than canceled
\* persists succeeded when the exit code is 0 and failed otherwise; the status
\* decided from any exit, a missing one included, is succeeded exactly for code 0.
C12_StatusFromExit ==
  [][/\ \A w \in LoopIds :
          (/\ loops[w].pc = "executing"
           /\ loops'[w].pc = "summary"
           /\ StatusOf(store, loops[w].j.id) # "canceled")
             => StatusOf(store', loops[w].j.id) =
                  (IF loops'[w].exit.code = 0 THEN "succeeded" ELSE "failed")
     /\ \A st \in {"queued", "running", "succeeded", "failed"}, e \in Exits :
          /\ (FinalStatus(st, exitInfoOf(e)) = "succeeded") <=> (e # NoExit /\ e.code = 0)
          /\ FinalStatus(st, exitInfoOf(e)) \in {"succeeded", "failed"}]_vars

C12_Witness ==
  \E w \in LoopIds :
     /\ loops[w].pc = "summary"
     /\ loops[w].exit.signal = "provider_error"
     /\ StatusOf(store, loops[w].j.id) = "failed"
     /\ \E i \in 1..Len(store) : store[i].status = "succeeded" /\ store[i].exit.code = 0

\* the kill timer of loop w fires
TimerFires(w) ==
  killTimer[w] /\ ~killTimer'[w] /\ loops[w].pc = "executing" /\ loops'[w].pc = "executing"

\* the close event of a child that the kill timer killed is handled
TimedOutClose(w) ==
  loops[w].pc = "executing" /\ loops[w].child = "timedout" /\ loops'[w].pc # "executing"

AbortCall(p, id) == prov'[p][id].aborts = prov[p][id].aborts + 1

\* C14: on either provider, an abort call that finds no live target (the
\* execution has not started or has finished, or an earlier abort has already
\* signaled it) returns false.
C14_AbortIdempotent ==
  [][\A p \in ProviderNames, id \in JobIds :
       (AbortCall(p, id) /\ (prov[p][id].exec = "finished" \/ prov[p][id].signaled))
          => prov'[p][id].ret = FALSE]_vars

\* the last n characters of s (all of s when it is shorter)
LastChars(s, n) == IF Len(s) <= n THEN s ELSE SubSeq(s, Len(s) - n + 1, Len(s))

\* C15: after any chunks fed to a capture the tail is at most tailLimit long and
\* is the last min(total, tailLimit) characters of the chunks joined in arrival
\* order, and the log sink holds all of them in that order.
C15_BoundedTail ==
  LET all == Concat(capture.chunks)
  IN /\ Len(capture.combinedTail) <= tailLimit
     /\ capture.combinedTail = LastChars(all, tailLimit)
     /\ capture.sink = all

C15_Witness ==
  /\ Len(capture.chunks) >= 2
  /\ Len(capture.sink) > tailLimit
  /\ \E i \in 1..Len(capture.chunks) : Len(capture.chunks[i]) > tailLimit
  /\ Len(capture.combinedTail) = tailLimit
  /\ capture.combinedTail # SubSeq(capture.sink, 1, tailLimit)

\* C16: in every record of the store, startedAt is null or not before createdAt,
\* and finishedAt is null or startedAt is set and not after it.
C16_Timestamps ==
  \A i \in 1..Len(store) :
     /\ store[i].startedAt = Null \/ store[i].createdAt <= store[i].startedAt
     /\ \/ store[i].finishedAt = Null
        \/ (store[i].startedAt # Null /\ store[i].startedAt <= store[i].finishedAt)

\* C17: a record's exit is null while its status is queued or running
\* and is a {code, signal} value while its status is succeeded, failed or canceled.
C17_ExitSet ==
  \A i \in 1..Len(store) :
     /\ store[i].status \in {"queued", "running"} => store[i].exit = NoExit
     /\ store[i].status \in Terminal => store[i].exit # NoExit

\* the startWorkerLoop activations that passed the guard
ActiveLoops == {w \in LoopIds : loops[w].pc # "off"}

\* C18: at most one worker loop is ever active, and it is active exactly when
\* the flag is set; a startWorkerLoop call made while the flag is set (by an
\* enqueueJob) starts no loop, moves no loop and claims no job.
C18_OneLoop ==
  [][/\ Cardinality(ActiveLoops) <= 1
     /\ workerRunning <=> ActiveLoops # {}
     /\ (workerRunning /\ nextId' # nextId) =>
           /\ loops' = loops
           /\ claimed' = claimed
           /\ Running(store') = Running(store)]_vars

C18_Witness ==
  /\ nextId >= 2
  /\ Cardinality(ActiveLoops) = 1
  /\ \E w \in LoopIds : loops[w].pc = "executing"
  /\ QueuedIdx(store) # {}

\* The engine with /setrepo and /setprovider, without /cancel, and with
\* messages that carry different prompts.
NextEnqueue ==
  \/ Boot
  \/ \E chatId \in Chats, prompt \in Prompts, o \in ProviderNames \cup {NoOverride} :
        Enqueue(MaxJobs, chatId, prompt, o, 0)
  \/ Worker
  \/ \E chatId \in Chats, wd \in Workdirs : SetRepo(chatId, wd)
  \/ \E chatId \in Chats, p \in ProviderNames : SetProvider(chatId, p)

SpecEnqueue == Init /\ [][NextEnqueue]_vars

\* C19: when enqueueJob returns, the store holds a record with the returned id,
\* the caller's chatId and prompt, the given workdir and provider, startedAt,
\* finishedAt, pid and exit null and status queued (running if the loop this
\* call started claimed it), and every record the store held before the call
\* is as it was.
C19_EnqueueFrame ==
  [][nextId' # nextId =>
       LET id == nextId'
           c  == captured'[id]
       IN /\ HasJob(store', id)
          /\ LET j == getJob(store', id)
             IN /\ j.chatId = c.chatId
                /\ j.prompt = c.prompt
                /\ j.workdir = (IF c.workdir = "" THEN WORKDIR ELSE c.workdir)
                /\ j.provider = c.provider
                /\ j.pid = Null /\ j.finishedAt = Null /\ j.exit = NoExit
                /\ \/ j.status = "queued" /\ j.startedAt = Null
                   \/ j.status = "running" /\ claimed' # claimed
          /\ Len(store') = Len(store) + 1
          /\ \A i \in 1..Len(store) : store'[i] = store[i]]_vars

\* the second job is enqueued with the other prompt, a repository and a
\* provider of its chat's choosing while the first one is running
C19_Witness ==
  /\ Len(store) = 2
  /\ store[1].status = "running"
  /\ store[2].status = "queued"
  /\ store[2].prompt # store[1].prompt
  /\ store[2].workdir # WORKDIR
  /\ store[2].provider # DEFAULT_PROVIDER
  /\ captured[2].prompt = store[2].prompt

\* The engine where Telegram may refuse the summary and logs may be long.
NextSummary ==
  \/ Boot
  \/ \E chatId \in Chats, prompt \in OnePrompt, o \in ProviderNames \cup {NoOverride} :
        Enqueue(MaxJobs, chatId, prompt, o, 0)
  \/ WorkerWith(BOOLEAN, BOOLEAN)
  \/ Cancel

SpecSummary == Init /\ [][NextSummary]_vars

\* C20: when the worker is through with a job it has finalized, exactly one
\* summary notification has been delivered to the job's chat for that job:
\* not zero, not two.
C20_OneSummary ==
  [][\A w \in LoopIds :
       (loops[w].pc = "summary" /\ loops'[w].pc # "summary") =>
          summaries'[loops[w].j.id] = 1]_vars

\* C21: when the worker is through with a finalized job, the log has been
\* sent as a document exactly if it was longer than MAX_INLINE_OUTPUT_CHARS or
\* the finalized status is not succeeded.
C21_Document ==
  [][\A w \in LoopIds :
       (loops[w].pc = "summary" /\ loops'[w].pc # "summary") =>
          LET id == loops[w].j.id
              n  == documents'[id].sent - documents[id].sent
          IN /\ n \in {0, 1}
             /\ n = 1 <=> (documents'[id].long \/ loops[w].j.status # "succeeded")]_vars

\* ------------------------------------------------ the heartbeat on its own
\* mutant of due: the heartbeat waits for more than HEARTBEAT_SEC
dueLate(now, lastHeartbeat) == now - lastHeartbeat > HEARTBEAT_SEC

\* heartbeatTimer line 51: now - lastHeartbeat >= HEARTBEAT_SEC * 1000
due(now, lastHeartbeat) == now - lastHeartbeat >= HEARTBEAT_SEC

\* execute lines 35-59: lastHeartbeat = Date.now(), the child is spawned, the
\* interval is set; its first callback is due a second later
HeartbeatStart ==
  /\ heartbeat.pc = "idle"
  /\ heartbeat' = [heartbeat EXCEPT !.pc = "executing", !.startedAt = heartbeat.now,
                                    !.lastHeartbeat = heartbeat.now,
                                    !.nextCheck = heartbeat.now + 1]
  /\ UNCHANGED <<store, clock, nextId, booted, workerRunning, loops, codexRunning,
                 geminiAborted, cancels, chatRepo, chatProvider, captured, claimed,
                 cancelSeen, finalized, zeroAfterCancel, killTimer, prov, capture,
                 summaries, documents>>
  /\ UNCHANGED toolLoop
  /\ UNCHANGED jobsFile
  /\ UNCHANGED lookedUp
  /\ UNCHANGED inbox
  /\ UNCHANGED notified
  /\ UNCHANGED outbox
  /\ UNCHANGED memCmd

\* a second passes, whether or not the event loop gets to run the callback
Tick ==
  /\ heartbeat.now < MaxTime
  /\ heartbeat' = [heartbeat EXCEPT !.now = @ + 1]
  /\ UNCHANGED <<store, clock, nextId, booted, workerRunning, loops, codexRunning,
                 geminiAborted, cancels, chatRepo, chatProvider, captured, claimed,
                 cancelSeen, finalized, zeroAfterCancel, killTimer, prov, capture,
                 summaries, documents>>
  /\ UNCHANGED toolLoop
  /\ UNCHANGED jobsFile
  /\ UNCHANGED lookedUp
  /\ UNCHANGED inbox
  /\ UNCHANGED notified
  /\ UNCHANGED outbox
  /\ UNCHANGED memCmd

\* the interval callback, execute lines 48-59: on time or late, and then due
\* again a second after it ran.  The send is the call of sendMessageSafe.
heartbeatTimer ==
  /\ heartbeat.pc = "executing"
  /\ heartbeat.now >= heartbeat.nextCheck
  /\ heartbeat' =
       IF ~heartbeat.finished /\ due(heartbeat.now, heartbeat.lastHeartbeat)
       THEN [heartbeat EXCEPT !.nextCheck = heartbeat.now + 1,
                              !.lastHeartbeat = heartbeat.now,
                              !.beats = Append(@, heartbeat.now)]
       ELSE [heartbeat EXCEPT !.nextCheck = heartbeat.now + 1]
  /\ UNCHANGED <<store, clock, nextId, booted, workerRunning, loops, codexRunning,
                 geminiAborted, cancels, chatRepo, chatProvider, captured, claimed,
                 cancelSeen, finalized, zeroAfterCancel, killTimer, prov, capture,
                 summaries, documents>>
  /\ UNCHANGED toolLoop
  /\ UNCHANGED jobsFile
  /\ UNCHANGED lookedUp
  /\ UNCHANGED inbox
  /\ UNCHANGED notified
  /\ UNCHANGED outbox
  /\ UNCHANGED memCmd

\* the close (or error) event resolves the exit promise and execute resumes in
\* a microtask, before any timer callback: lines 91-94, clearInterval and
\* finished = true
HeartbeatClose ==
  /\ heartbeat.pc = "executing"
  /\ heartbeat' = [heartbeat EXCEPT !.pc = "closed", !.finished = TRUE]
  /\ UNCHANGED <<store, clock, nextId, booted, workerRunning, loops, codexRunning,
                 geminiAborted, cancels, chatRepo, chatProvider, captured, claimed,
                 cancelSeen, finalized, zeroAfterCancel, killTimer, prov, capture,
                 summaries, documents>>
  /\ UNCHANGED toolLoop
  /\ UNCHANGED jobsFile
  /\ UNCHANGED lookedUp
  /\ UNCHANGED inbox
  /\ UNCHANGED notified
  /\ UNCHANGED outbox
  /\ UNCHANGED memCmd

NextHeartbeat == HeartbeatStart \/ Tick \/ heartbeatTimer \/ HeartbeatClose

SpecHeartbeat == Init /\ [][NextHeartbeat]_vars

\* the time the HEARTBEAT_SEC of the next heartbeat are counted from
LastBeat ==
  IF heartbeat.beats = <<>> THEN heartbeat.startedAt
  ELSE heartbeat.beats[Len(heartbeat.beats)]

\* C22: a heartbeat is sent only while the process has not closed and no
\* earlier than HEARTBEAT_SEC after the start of the execution or the previous
\* heartbeat; a 1-second check made before the close at which HEARTBEAT_SEC
\* have elapsed sends one; after the close none is sent.
C22_Heartbeat ==
  [][/\ heartbeat'.beats # heartbeat.beats =>
           /\ heartbeat'.beats = Append(heartbeat.beats, heartbeat.now)
           /\ heartbeat.pc = "executing"
           /\ heartbeat.now - LastBeat >= HEARTBEAT_SEC
     /\ (heartbeat.pc = "executing" /\ heartbeat'.nextCheck # heartbeat.nextCheck
           /\ heartbeat.now - LastBeat >= HEARTBEAT_SEC) =>
           heartbeat'.beats # heartbeat.beats
     /\ heartbeat.pc = "closed" => heartbeat'.beats = heartbeat.beats]_vars

\* two heartbeats were sent, the second by a late check, and the process closed
C22_Witness ==
  /\ heartbeat.pc = "closed"
  /\ Len(heartbeat.beats) = 2
  /\ heartbeat.beats[2] - heartbeat.beats[1] > HEARTBEAT_SEC
  /\ heartbeat.now - LastBeat >= HEARTBEAT_SEC

\* ------------------------------------------------ the tool loop on its own
\* toolLoop.generates counts the generateContent calls made, toolLoop.tools the
\* executeMcpTool calls made, toolLoop.calls the calls of the round still to be
\* executed; contents holds the turns added to the conversation after the
\* prompt: <<"model", n>> for a request of n calls, <<"function", results>>
\* for their results.

\* mutant of loopCheckpoint: the flag is not looked at inside the loop
loopCheckpointNone(aborted) == FALSE

\* execute line 113: if (this.aborted.has(job.id)) break
loopCheckpoint(aborted) == aborted

\* execute lines 178-188 and 190-207 after the loop: the aborted result with
\* the flag taken down, or the model's text appended and code 0
AfterLoop(t) ==
  IF t.aborted
  THEN [t EXCEPT !.pc = "returned", !.aborted = FALSE,
                 !.exit = ExitInfo(AbortedCode, "aborted")]
  ELSE [t EXCEPT !.pc = "returned", !.text = TRUE, !.exit = ExitInfo(0, "null")]

\* mutant of forNext: the loop goes round once more
forNextOneMore(t) ==
  IF t.generates < MAX_TOOL_LOOPS + 1
  THEN [t EXCEPT !.pc = "generate", !.generates = @ + 1]
  ELSE AfterLoop(t)

\* execute line 109-111: for (i = 0; i < MAX_TOOL_LOOPS; i++) await generateContent
forNext(t) ==
  IF t.generates < MAX_TOOL_LOOPS
  THEN [t EXCEPT !.pc = "generate", !.generates = @ + 1]
  ELSE AfterLoop(t)

\* execute lines 52-111 up to the first generateContent call; the missing key
\* (line 53), the MCP start-up and the SDK import can raise
GemExecute(raised) ==
  /\ toolLoop.pc = "idle"
  /\ toolLoop' = IF raised THEN [toolLoop EXCEPT !.pc = "raised"] ELSE forNext(toolLoop)
  /\ UNCHANGED <<store, clock, nextId, booted, workerRunning, loops, codexRunning,
                 geminiAborted, cancels, chatRepo, chatProvider, captured, claimed,
                 cancelSeen, finalized, zeroAfterCancel, killTimer, prov, capture,
                 summaries, documents, heartbeat>>
  /\ UNCHANGED jobsFile
  /\ UNCHANGED lookedUp
  /\ UNCHANGED inbox
  /\ UNCHANGED notified
  /\ UNCHANGED outbox
  /\ UNCHANGED memCmd

\* the generateContent call in progress ends: it raises, or it returns a
\* response that asks for n tool calls (lines 111-127)
GenerateReturns(n, raised) ==
  /\ toolLoop.pc = "generate"
  /\ toolLoop' =
       IF raised THEN [toolLoop EXCEPT !.pc = "raised"]
       ELSE IF loopCheckpoint(toolLoop.aborted) \/ n = 0 THEN AfterLoop(toolLoop)
       ELSE [toolLoop EXCEPT !.pc = "tools", !.calls = n, !.functionResponses = <<>>,
                             !.contents = Append(@, <<"model", n>>)]
  /\ UNCHANGED <<store, clock, nextId, booted, workerRunning, loops, codexRunning,
                 geminiAborted, cancels, chatRepo, chatProvider, captured, claimed,
                 cancelSeen, finalized, zeroAfterCancel, killTimer, prov, capture,
                 summaries, documents, heartbeat>>
  /\ UNCHANGED jobsFile
  /\ UNCHANGED lookedUp
  /\ UNCHANGED inbox
  /\ UNCHANGED notified
  /\ UNCHANGED outbox
  /\ UNCHANGED memCmd

\* mutant of toolResult: a raising tool ends the round without a result
toolResultDropped(responses, raised) == IF raised THEN responses ELSE Append(responses, "result")

\* execute lines 131-166: the call's result, or the error of a call that raised
\* (executeMcpTool raises for an unknown name, line 129 of mcp-manager)
toolResult(responses, raised) == Append(responses, IF raised THEN "isError" ELSE "result")

\* one executeMcpTool call of the round ends (lines 131-166); after the last
\* one the results are added to the conversation (lines 169-175) and the loop
\* goes round
ToolCall(raised) ==
  /\ toolLoop.pc = "tools"
  /\ LET r == toolResult(toolLoop.functionResponses, raised)
         t == [toolLoop EXCEPT !.tools = @ + 1, !.calls = @ - 1, !.functionResponses = r]
     IN toolLoop' =
          IF t.calls > 0 THEN t
          ELSE forNext([t EXCEPT !.contents = Append(@, <<"function", r>>),
                                 !.functionResponses = <<>>])
  /\ UNCHANGED <<store, clock, nextId, booted, workerRunning, loops, codexRunning,
                 geminiAborted, cancels, chatRepo, chatProvider, captured, claimed,
                 cancelSeen, finalized, zeroAfterCancel, killTimer, prov, capture,
                 summaries, documents, heartbeat>>
  /\ UNCHANGED jobsFile
  /\ UNCHANGED lookedUp
  /\ UNCHANGED inbox
  /\ UNCHANGED notified
  /\ UNCHANGED outbox
  /\ UNCHANGED memCmd

\* abort(job), lines 210-214: this.aborted.add(job.id)
GemAbort ==
  /\ ~toolLoop.aborted
  /\ toolLoop.pc \notin {"returned", "raised"}
  /\ toolLoop' = [toolLoop EXCEPT !.aborted = TRUE]
  /\ UNCHANGED <<store, clock, nextId, booted, workerRunning, loops, codexRunning,
                 geminiAborted, cancels, chatRepo, chatProvider, captured, claimed,
                 cancelSeen, finalized, zeroAfterCancel, killTimer, prov, capture,
                 summaries, documents, heartbeat>>
  /\ UNCHANGED jobsFile
  /\ UNCHANGED lookedUp
  /\ UNCHANGED inbox
  /\ UNCHANGED notified
  /\ UNCHANGED outbox
  /\ UNCHANGED memCmd

NextToolLoop ==
  \/ \E raised \in BOOLEAN : GemExecute(raised)
  \/ \E n \in 0..MaxCalls, raised \in BOOLEAN : GenerateReturns(n, raised)
  \/ \E raised \in BOOLEAN : ToolCall(raised)
  \/ GemAbort

SpecToolLoop == Init /\ [][NextToolLoop]_vars

\* C23: when the flag is up as a generateContent call returns, or as the last
\* round's tools are through, execute returns {code: 130, signal: "aborted"}
\* there and then: no further generateContent call, no further tool call, no
\* model text appended; and a result with another exit is never returned with
\* the flag up.
C23_AbortCheckpoint ==
  [][/\ (toolLoop.aborted /\ toolLoop.pc = "generate" /\ toolLoop'.pc # "generate"
          /\ toolLoop'.pc # "raised") =>
           /\ toolLoop'.pc = "returned"
           /\ toolLoop'.exit = ExitInfo(AbortedCode, "aborted")
           /\ ~toolLoop'.text
           /\ toolLoop'.generates = toolLoop.generates
           /\ toolLoop'.tools = toolLoop.tools
           /\ toolLoop'.contents = toolLoop.contents
     /\ (toolLoop.aborted /\ toolLoop'.pc = "returned") =>
           /\ toolLoop'.exit = ExitInfo(AbortedCode, "aborted")
           /\ ~toolLoop'.text
     /\ toolLoop.pc = "returned" => toolLoop' = toolLoop]_vars

\* abort came while the second round's generateContent call was in progress,
\* the response asked for tools, and execute returned the aborted result
C23_Witness ==
  /\ toolLoop.pc = "returned"
  /\ toolLoop.exit = ExitInfo(AbortedCode, "aborted")
  /\ toolLoop.generates = 2
  /\ toolLoop.tools = 1
  /\ ~toolLoop.text

\* the rounds made so far: the requests for tools added to the conversation
Rounds == {k \in 1..Len(toolLoop.contents) : toolLoop.contents[k][1] = "model"}

\* C24 as stated: execute makes at most MAX_TOOL_LOOPS generateContent calls
\* and then returns, whatever the model and the tools do, and it has stopped
\* at the first response that asks for no tool call.
C24_AsStated ==
  /\ toolLoop.generates <= MAX_TOOL_LOOPS
  /\ toolLoop.pc # "raised"

\* C24: execute makes at most MAX_TOOL_LOOPS generateContent calls; every call
\* but the last was answered by a request for tools, so the loop stopped at
\* the first response without one; after the MAX_TOOL_LOOPS-th round no call
\* is made, execute returns; and execute ends by raising only when its set-up
\* or a generateContent call raised.
C24_BoundedRounds ==
  [][/\ toolLoop'.generates <= MAX_TOOL_LOOPS
     /\ toolLoop'.generates <= Cardinality(Rounds) + 1
     /\ toolLoop'.generates > toolLoop.generates =>
           toolLoop'.generates = Cardinality(Rounds)' + 1
     /\ (toolLoop.pc = "generate" /\ toolLoop'.pc = "returned" /\ ~toolLoop.aborted) =>
           toolLoop'.contents = toolLoop.contents
     /\ (toolLoop.generates = MAX_TOOL_LOOPS /\ toolLoop.pc = "tools"
           /\ toolLoop'.calls = 0) => toolLoop'.pc = "returned"
     /\ toolLoop'.pc = "raised" => toolLoop.pc \in {"idle", "generate", "raised"}]_vars

\* five rounds asked for tools and execute returned after the fifth
C24_Witness ==
  /\ toolLoop.pc = "returned"
  /\ toolLoop.generates = MAX_TOOL_LOOPS
  /\ Cardinality(Rounds) = MAX_TOOL_LOOPS
  /\ toolLoop.exit = ExitInfo(0, "null")

\* the last turn of the conversation
LastTurn == toolLoop.contents[Len(toolLoop.contents)]

\* C25: a tool call that raises leaves an error result for that call, the
\* other calls of the round are still executed, the round's results (one per
\* call requested, errors included) are added to the conversation, the loop
\* goes on to its next generateContent call if a round is left, and execute
\* does not raise because of it.
C25_ToolError ==
  [][(toolLoop.pc = "tools" /\ toolLoop'.tools # toolLoop.tools) =>
       /\ toolLoop'.pc # "raised"
       /\ toolLoop'.tools = toolLoop.tools + 1
       /\ toolLoop.calls > 1 =>
             /\ toolLoop'.pc = "tools"
             /\ toolLoop'.calls = toolLoop.calls - 1
             /\ Len(toolLoop'.functionResponses) = Len(toolLoop.functionResponses) + 1
       /\ toolLoop.calls = 1 =>
             /\ LastTurn'[1] = "function"
             /\ Len(LastTurn'[2]) = toolLoop.contents[Len(toolLoop.contents)][2]
             /\ Len(toolLoop'.contents) = Len(toolLoop.contents) + 1
             /\ toolLoop.generates < MAX_TOOL_LOOPS =>
                   toolLoop'.pc = "generate" /\ toolLoop'.generates = toolLoop.generates + 1
             /\ toolLoop.generates = MAX_TOOL_LOOPS => toolLoop'.pc = "returned"]_vars

\* the first of two calls raised, the second was executed, both results were
\* added, the next round asked for nothing and execute returned code 0
C25_Witness ==
  /\ toolLoop.pc = "returned"
  /\ toolLoop.exit = ExitInfo(0, "null")
  /\ toolLoop.generates = 2
  /\ Len(toolLoop.contents) = 2
  /\ LastTurn = <<"function", <<"isError", "result">> >>

\* ------------------------------------------------- loadJobs and the file
\* The engine model reads a well-formed store (loadJobs == store); here
\* loadJobs is applied to every content the file can have.

\* loadJobs lines 11-15, the body of the try: existsSync, readFileSync,
\* JSON.parse, the test of parsed?.jobs; an unreadable file and a text that is
\* not JSON make it raise
loadJobsTry(f) ==
  IF f.kind = "missing" THEN EmptyDb
  ELSE IF f.kind \in {"unreadable", "garbage"} THEN [EmptyDb EXCEPT !.raised = TRUE]
  ELSE IF f.kind = "null" \/ f.jobs \in {"absent", "falsy"} THEN EmptyDb
  ELSE [raised |-> FALSE, jobs |-> f.jobs, items |-> f.items]

\* mutant of loadJobsFrom: without the catch
loadJobsNoCatch(f) == loadJobsTry(f)

\* loadJobs lines 9-19: the try and its catch
loadJobsFrom(f) ==
  IF loadJobsTry(f).raised THEN EmptyDb ELSE loadJobsTry(f)

\* the file is written, removed or damaged behind the program's back
WriteFile(f) ==
  /\ jobsFile.content # f
  /\ jobsFile' = [jobsFile EXCEPT !.content = f]
  /\ UNCHANGED <<store, clock, nextId, booted, workerRunning, loops, codexRunning,
                 geminiAborted, cancels, chatRepo, chatProvider, captured, claimed,
                 cancelSeen, finalized, zeroAfterCancel, killTimer, prov, capture,
                 summaries, documents, heartbeat, toolLoop>>
  /\ UNCHANGED lookedUp
  /\ UNCHANGED inbox
  /\ UNCHANGED notified
  /\ UNCHANGED outbox
  /\ UNCHANGED memCmd

\* loadJobs()
LoadFile ==
  /\ jobsFile' = [jobsFile EXCEPT !.read = TRUE, !.db = loadJobsFrom(jobsFile.content)]
  /\ UNCHANGED <<store, clock, nextId, booted, workerRunning, loops, codexRunning,
                 geminiAborted, cancels, chatRepo, chatProvider, captured, claimed,
                 cancelSeen, finalized, zeroAfterCancel, killTimer, prov, capture,
                 summaries, documents, heartbeat, toolLoop>>
  /\ UNCHANGED lookedUp
  /\ UNCHANGED inbox
  /\ UNCHANGED notified
  /\ UNCHANGED outbox
  /\ UNCHANGED memCmd

NextFile == LoadFile \/ \E f \in Files : WriteFile(f)

SpecFile == Init /\ [][NextFile]_vars

\* C26: loadJobs never raises, and for a file that is missing, is not valid
\* JSON or has no jobs field it returns the empty collection.
C26_LoadTolerant ==
  [][jobsFile'.db # jobsFile.db \/ jobsFile'.read # jobsFile.read =>
       /\ ~jobsFile'.db.raised
       /\ (\/ jobsFile.content.kind \in {"missing", "garbage"}
           \/ jobsFile.content.jobs = "absent") => jobsFile'.db = EmptyDb
       /\ (jobsFile.content.kind = "object" /\ jobsFile.content.jobs = "array") =>
             jobsFile'.db.items = jobsFile.content.items]_vars

\* the file was replaced by text that is not JSON and loadJobs returned the
\* empty collection
C26_Witness ==
  /\ jobsFile.read
  /\ jobsFile.content.kind = "garbage"
  /\ jobsFile.db = EmptyDb

\* the error event of a child that could not be spawned is handled
SpawnErrorClose(w) ==
  loops[w].pc = "executing" /\ loops[w].child = "spawn_error" /\ loops'[w].pc # "executing"

\* C27: when the spawn of the child fails, by an error event or by a throw,
\* execute returns exit {code 1, signal spawn_error} and the job's record is
\* finalized with that exit and the status failed.
C27_SpawnError ==
  [][\A w \in LoopIds :
       (SpawnErrorClose(w) \/ SpawnThrows(w)) =>
          /\ HasJob(store', loops[w].j.id)
          /\ getJob(store', loops[w].j.id).exit = ExitInfo(1, "spawn_error")
          /\ StatusOf(store', loops[w].j.id) = "failed"]_vars

\* ------------------------------------------- the provider manager on its own
\* The engine model calls getProvider with the names codex and gemini only
\* (getProvider above); here it is applied to every name.

\* String.prototype.toLowerCase
toLowerCase(name) == [i \in 1..Len(name) |-> <<name[i][1], FALSE>>]

\* providers[key]: the object literal of lines 125-128 holds codex and gemini,
\* every other key is looked up on Object.prototype
providersAt(key) ==
  IF key = Codex THEN "CodexCliProvider"
  ELSE IF key = Gemini THEN "GeminiProvider"
  ELSE IF key \in ObjectPrototype THEN "inherited"
  ELSE "undefined"

\* getProvider lines 130-133: String(name || "codex").toLowerCase(), then
\* providers[key] || providers.codex
getProviderByName(name) ==
  LET key == toLowerCase(IF name = <<>> THEN Codex ELSE name)
  IN IF providersAt(key) = "undefined" THEN providersAt(Codex) ELSE providersAt(key)

\* getProvider(name)
GetProvider(name) ==
  /\ lookedUp.name # name \/ lookedUp.value = "none"
  /\ lookedUp' = [name |-> name, value |-> getProviderByName(name)]
  /\ UNCHANGED <<store, clock, nextId, booted, workerRunning, loops, codexRunning,
                 geminiAborted, cancels, chatRepo, chatProvider, captured, claimed,
                 cancelSeen, finalized, zeroAfterCancel, killTimer, prov, capture,
                 summaries, documents, heartbeat, toolLoop, jobsFile>>
  /\ UNCHANGED inbox
  /\ UNCHANGED notified
  /\ UNCHANGED outbox
  /\ UNCHANGED memCmd

NextProviders == \E name \in Names : GetProvider(name)

SpecProviders == Init /\ [][NextProviders]_vars

\* the same letters, whatever their case
SameLetters(a, b) == Len(a) = Len(b) /\ \A i \in 1..Len(a) : a[i][1] = b[i][1]

\* C28: getProvider returns the gemini provider for the name gemini and the
\* codex provider for the name codex, in any letter case, and the codex
\* provider for every other name, a missing or empty one included.
C28_GetProvider ==
  lookedUp.value # "none" =>
     lookedUp.value = (IF SameLetters(lookedUp.name, Gemini) THEN "GeminiProvider"
                       ELSE "CodexCliProvider")


\* ------------------------------------------------ the bot locked to one chat
\* onMessage for /codex, /gemini, /ask or a plain text
MsgJob(chatId, prompt, o) ==
  /\ booted
  /\ inbox.received < MaxMessages
  /\ IF isAllowed(ALLOWED_CHAT_ID, chatId)
     THEN /\ queueJob(MaxJobs, chatId, prompt, o, 0)
          /\ Handled(chatId, TRUE)
          /\ UNCHANGED memCmd
     ELSE Dropped(chatId)

\* onMessage for /setrepo
MsgSetRepo(chatId, wd) ==
  /\ booted
  /\ inbox.received < MaxMessages
  /\ IF isAllowed(ALLOWED_CHAT_ID, chatId)
     THEN /\ updateChatRepo(chatId, wd)
          /\ Handled(chatId, TRUE)
     ELSE Dropped(chatId)

\* onMessage for /setprovider
MsgSetProvider(chatId, p) ==
  /\ booted
  /\ inbox.received < MaxMessages
  /\ IF isAllowed(ALLOWED_CHAT_ID, chatId)
     THEN /\ setChatProvider(chatId, p)
          /\ Handled(chatId, TRUE)
     ELSE Dropped(chatId)

\* onMessage for /cancel up to cancelJob's await; it answers at once when
\* cancelJob returned without awaiting
MsgCancel(c, chatId, id) ==
  /\ booted
  /\ inbox.received < MaxMessages
  /\ IF isAllowed(ALLOWED_CHAT_ID, chatId)
     THEN /\ cancelJob(c, chatId, id)
          /\ Handled(chatId, cancels'[c].pc = "done")
     ELSE Dropped(chatId)

\* the /cancel command after `await cancelJob(chatId, id)`: cancelJob's last
\* step, then the answer to the chat that sent the command
MsgCancelReturns(c) ==
  /\ cancelJobReturns(c)
  /\ inbox' = [inbox EXCEPT !.replies[cancels[c].chatId] = @ + 1]

NextAllowed ==
  \/ Boot
  \/ Worker
  \/ \E chatId \in Chats, prompt \in OnePrompt, o \in ProviderNames \cup {NoOverride} :
        MsgJob(chatId, prompt, o)
  \/ \E chatId \in Chats, wd \in Workdirs : MsgSetRepo(chatId, wd)
  \/ \E chatId \in Chats, p \in ProviderNames : MsgSetProvider(chatId, p)
  \/ \E c \in CancelIds, chatId \in Chats, id \in JobIds : MsgCancel(c, chatId, id)
  \/ \E c \in CancelIds : MsgCancelReturns(c)

SpecAllowed == Init /\ [][NextAllowed]_vars

\* C29: with ALLOWED_CHAT_ID set, a message from any other chat enqueues and
\* cancels no job, changes no repo or provider setting, and is sent no reply:
\* the step that handles it leaves everything but the record of the message
\* as it was.
C29_OtherChatIgnored ==
  [][inbox'.received # inbox.received /\ inbox'.chat # ALLOWED_CHAT_ID
       => /\ UNCHANGED <<store, cancels, chatRepo, chatProvider>>
          /\ UNCHANGED engine
          /\ inbox'.replies = inbox.replies]_vars

\* The allowed chat has queued a job and been answered, and a message of the
\* other chat was then dropped.
C29_Witness ==
  /\ inbox.received >= 2
  /\ inbox.chat # ALLOWED_CHAT_ID
  /\ ~inbox.allowed
  /\ Len(store) >= 1
  /\ inbox.replies[ALLOWED_CHAT_ID] >= 1
  /\ \A c \in Chats \ {ALLOWED_CHAT_ID} : inbox.replies[c] = 0


\* ------------------------------------------- the engine when sends succeed
\* One activation of the worker loop with every Telegram send delivered: the
\* "Job started" message is never refused and the summary arrives.
runJob(w) ==
  \/ Poll(w)
  \/ \E spawned \in BOOLEAN : CodexSpawn(w, spawned)
  \/ SpawnThrows(w)
  \/ GeminiBegin(w)
  \/ \E code \in {0, 1} : CodexClose(w, code)
  \/ \E raised \in BOOLEAN : GeminiReturn(w, raised)
  \/ Summarize(w, TRUE, FALSE)

NextLive ==
  \/ Boot
  \/ \E chatId \in Chats, prompt \in OnePrompt, o \in ProviderNames \cup {NoOverride} :
        Enqueue(MaxJobs, chatId, prompt, o, 0)
  \/ \E w \in LoopIds : runJob(w)
  \/ Cancel

\* Scheduling: main starts the worker, every activation of the loop goes on
\* (a started execution ends, a pending await resumes), and a pending
\* provider.abort returns. Messages may or may not arrive.
SpecLive ==
  /\ Init
  /\ [][NextLive]_vars
  /\ WF_vars(Boot)
  /\ \A w \in LoopIds : WF_vars(runJob(w))
  /\ \A c \in CancelIds : WF_vars(CancelFinish(c))

\* C30: with executions that end and sends that succeed, every job for which
\* enqueueJob returned an id is eventually recorded with a terminal status.
C30_Terminates ==
  \A id \in JobIds :
     (id <= nextId) ~> (\E i \in 1..Len(store) :
                          store[i].id = id /\ store[i].status \in Terminal)

\* C31: the worker never claims a further job while a job it claimed earlier
\* still has status running: a step in which an activation of the loop marks
\* a job running and enters runJob starts from a store with no running job.
C31_NoClaimWhileRunning ==
  [][(\E w \in LoopIds : loops[w].pc # "started" /\ loops'[w].pc = "started")
       => Running(store) = {}]_vars

\* C32: after cancelJob returned ok for a job of the process-backed provider
\* the job's child never runs to natural completion: no child that is alive
\* (spawned and not killed) closes by itself for such a job.
C32_ChildKilled ==
  [][\A w \in LoopIds :
        (/\ loops[w].pc = "executing"
         /\ loops[w].provider = "codex"
         /\ loops[w].child = "alive"
         /\ loops'[w].pc # "executing")
        => ~\E c \in CancelIds :
               /\ cancels[c].pc = "done"
               /\ cancels[c].result = "ok"
               /\ cancels[c].id = loops[w].j.id]_vars

\* C33: once the finalization has written finishedAt and exit for a job, the
\* job's record has both fields non-null in every later state of the store.
C33_FinalFieldsKept ==
  \A id \in finalized :
     \A i \in 1..Len(store) :
        store[i].id = id => store[i].finishedAt # Null /\ store[i].exit # NoExit

\* C34: in every state after a job's summary notification was delivered, the
\* status it named is the status of the job's record in the store.
C34_SummaryStatus ==
  \A id \in AllIds :
     notified[id] # "" =>
        \E i \in 1..Len(store) : store[i].id = id /\ store[i].status = notified[id]

\* C35: execute returns exit code 0 only when the last response it received
\* asked for no tool call (the generateContent calls are one more than the
\* rounds of tools), and when it has returned every turn of tool results was
\* followed by a generateContent call.
C35_FinalAnswer ==
  toolLoop.pc = "returned" =>
     /\ toolLoop.exit = ExitInfo(0, "null") =>
           toolLoop.generates = Cardinality(Rounds) + 1
     /\ Cardinality({k \in 1..Len(toolLoop.contents) :
                       toolLoop.contents[k][1] = "function"}) < toolLoop.generates

\* ------------------------------------------------------- the Telegram sends
\* chunkText(text, size), telegram helper lines 4-9
chunkText(text, size) ==
  LET s == IF Len(text) > 0 THEN text ELSE <<0>>   \* "(no output)"
      n == (Len(s) + size - 1) \div size
  IN [k \in 1..n |->
        SubSeq(s, (k - 1) * size + 1, IF k * size < Len(s) THEN k * size ELSE Len(s))]

isRetryableAny(outcome) == outcome # "ok"

\* lines 25-37: the error carries retry_after, or its message is one of the
\* connection errors
isRetryable(outcome) == outcome \in {"retry_after", "network"}

\* the chunk is done with: the for loop of line 14 takes the next one, or
\* sendMessageSafe returns
nextChunk(o) ==
  IF o.at < Len(o.chunks)
  THEN [o EXCEPT !.at = @ + 1, !.attempt = 0]
  ELSE [o EXCEPT !.pc = "returned"]

\* sendMessageSafe(chatId, text) up to the first bot.sendMessage call
SendMessageSafe(text) ==
  /\ outbox.pc = "idle"
  /\ LET chunks == chunkText(text, TELEGRAM_MAX_CHARS)
     IN outbox' = [pc |-> "sending", text |-> text, chunks |-> chunks, at |-> 1,
                   attempt |-> 0, attempts |-> [k \in 1..Len(chunks) |-> 0],
                   accepted |-> <<>>, last |-> "none"]
  /\ UNCHANGED <<engine, inbox, memCmd>>

\* the bot.sendMessage call in progress ends (lines 17-41): accepted (break),
\* refused with an error that is retried (sleep, continue; the attempt loop
\* may end there), or refused with another error (throw e)
BotSendMessage(outcome) ==
  /\ outbox.pc = "sending"
  /\ LET o == [outbox EXCEPT !.attempts[outbox.at] = @ + 1, !.last = outcome]
     IN outbox' =
          IF outcome = "ok" THEN nextChunk([o EXCEPT !.accepted = Append(@, o.at)])
          ELSE IF isRetryable(outcome)
          THEN (IF o.attempt + 1 < MaxAttempts
                THEN [o EXCEPT !.attempt = @ + 1]
                ELSE nextChunk(o))
          ELSE [o EXCEPT !.pc = "raised"]
  /\ UNCHANGED <<engine, inbox, memCmd>>

NextSend ==
  \/ \E text \in {[i \in 1..n |-> i] : n \in 0..MaxText} : SendMessageSafe(text)
  \/ \E outcome \in {"ok", "retry_after", "network", "other"} : BotSendMessage(outcome)

SpecSend == Init /\ [][NextSend]_vars

RECURSIVE Joined(_)
\* the chunks put together again
Joined(chunks) ==
  IF chunks = <<>> THEN <<>> ELSE Head(chunks) \o Joined(Tail(chunks))

\* C36: the chunks are the text cut in order into pieces of at most
\* TELEGRAM_MAX_CHARS characters; they are attempted in order, a chunk only
\* after the one before it is done with; a chunk gets at most 6 attempts; the
\* same chunk is attempted again only after a retry_after reply or a network
\* error; any other error makes the call raise at once, and the chunks after
\* it are never attempted.
C36_SendOrder ==
  [][/\ outbox'.pc # "idle" =>
          /\ Joined(outbox'.chunks) =
               (IF outbox'.text = <<>> THEN <<0>> ELSE outbox'.text)
          /\ \A k \in 1..Len(outbox'.chunks) :
                /\ Len(outbox'.chunks[k]) \in 1..TELEGRAM_MAX_CHARS
                /\ outbox'.attempts[k] <= MaxAttempts
                /\ k > outbox'.at => outbox'.attempts[k] = 0
          /\ \A k \in 1..Len(outbox'.accepted) - 1 :
                outbox'.accepted[k] < outbox'.accepted[k + 1]
     /\ (outbox.pc = "sending" /\ outbox' # outbox) =>
          /\ outbox'.attempts[outbox.at] = outbox.attempts[outbox.at] + 1
          /\ outbox'.at \in {outbox.at, outbox.at + 1}
          /\ (outbox'.pc = "sending" /\ outbox'.at = outbox.at) =>
                outbox'.last \in {"retry_after", "network"}
          /\ outbox'.last = "ok" => outbox'.accepted = Append(outbox.accepted, outbox.at)
          /\ outbox'.last = "other" =>
                /\ outbox'.pc = "raised"
                /\ outbox'.at = outbox.at
                /\ outbox'.accepted = outbox.accepted
          /\ outbox'.pc = "raised" => outbox'.last = "other"
     /\ outbox.pc \in {"returned", "raised"} => outbox' = outbox]_vars

\* Of three chunks the first was accepted at its sixth attempt, the second
\* was refused with an error that is not retried, the third was never tried.
C36_Witness ==
  /\ outbox.pc = "raised"
  /\ Len(outbox.chunks) = 3
  /\ outbox.attempts = <<MaxAttempts, 1, 0>>
  /\ outbox.accepted = <<1>>

\* C37: sendMessageSafe returns normally only if every chunk of the text was
\* accepted by bot.sendMessage.
C37_ReturnsDelivered ==
  outbox.pc = "returned" => outbox.accepted = [k \in 1..Len(outbox.chunks) |-> k]

\* ------------------------------------------------- /mem and /compress
\* the tests of onMessage below the /mem block (lines 192-316) applied to a
\* text "/mem", "/compress" or "/nope": /compress is a command there, /mem
\* and /nope match none and reach the last statement
commandBelowMem(text) == IF text = "/compress" THEN "compress" ELSE "unknown"

\* onMessage for /mem, lines 169-190: the report is sent; below the threshold
\* the handler returns; otherwise it announces /compress and goes on below
\* the block
OnMem(botMemMb) ==
  /\ booted
  /\ memCmd.pc = "idle"
  /\ memCmd.handled < MaxTexts
  /\ memCmd' =
       IF botMemMb < MEMORY_HIGH_MB
       THEN [pc |-> "idle", text |-> "/mem", botMemMb |-> botMemMb,
             replies |-> <<"report">>, flow |-> "none",
             handled |-> memCmd.handled + 1]
       ELSE [pc |-> commandBelowMem("/mem"), text |-> "/mem", botMemMb |-> botMemMb,
             replies |-> <<"report", "announce">>, flow |-> "none",
             handled |-> memCmd.handled + 1]
  /\ UNCHANGED <<engine, inbox, outbox>>

\* onMessage for /compress or for a text that is no command, down to the
\* statement that handles it
OnText(text) ==
  /\ booted
  /\ memCmd.pc = "idle"
  /\ memCmd.handled < MaxTexts
  /\ text # "/mem"
  /\ memCmd' = [pc |-> commandBelowMem(text), text |-> text, botMemMb |-> 0,
                replies |-> <<>>, flow |-> "none", handled |-> memCmd.handled + 1]
  /\ UNCHANGED <<engine, inbox, outbox>>

\* /compress, lines 192-204: codex --help names compress, codex compress ran
\* or failed, and the handler answers
CodexCompress(failed) ==
  /\ memCmd.pc = "compress"
  /\ memCmd' = [memCmd EXCEPT !.pc = "idle", !.flow = "codex",
                  !.replies = Append(@, IF failed THEN "compress failed"
                                        ELSE "compress done")]
  /\ UNCHANGED <<engine, inbox, outbox>>

\* /compress, lines 206-211: no compress in codex --help; the summary job is
\* queued for codex and the handler answers
CompressFallback(chatId) ==
  /\ memCmd.pc = "compress"
  /\ queueJob(MaxJobs, chatId, "Create a compact project memory summary", "codex", 0)
  /\ memCmd' = [memCmd EXCEPT !.pc = "idle", !.flow = "fallback",
                  !.replies = Append(@, "fallback started")]
  /\ UNCHANGED inbox

\* line 318: return sendMessageSafe(chatId, "Unknown command. Try /help")
UnknownCommand ==
  /\ memCmd.pc = "unknown"
  /\ memCmd' = [memCmd EXCEPT !.pc = "idle", !.replies = Append(@, "unknown command")]
  /\ UNCHANGED <<engine, inbox, outbox>>

NextMem ==
  \/ Boot
  \/ \E botMemMb \in 0..MaxMem : OnMem(botMemMb)
  \/ \E text \in {"/mem", "/compress", "/nope"} : OnText(text)
  \/ \E failed \in BOOLEAN : CodexCompress(failed)
  \/ \E chatId \in Chats : CompressFallback(chatId)
  \/ UnknownCommand

SpecMem == Init /\ [][NextMem]_vars

\* C38: when the handling of a /mem message is over, either memory was below
\* MEMORY_HIGH_MB and the only reply is the report, or it was at or above it
\* and, after the report and the announcement, the /compress flow has run:
\* codex compress, or the fallback job was queued.
C38_MemCompress ==
  [][(memCmd' # memCmd /\ memCmd'.text = "/mem" /\ memCmd'.pc = "idle") =>
        IF memCmd'.botMemMb < MEMORY_HIGH_MB
        THEN memCmd'.replies = <<"report">> /\ memCmd'.flow = "none"
        ELSE /\ SubSeq(memCmd'.replies, 1, 2) = <<"report", "announce">>
             /\ memCmd'.flow \in {"codex", "fallback"}]_vars

====
